---------------------------- MODULE Spec2Model ----------------------------
(***************************************************************************)
(* A model of the Wordle solver engine: solver.py (class WordleSolver and  *)
(* get_feedback_pattern) and filters.py (the module-level variant used by  *)
(* gui.py).                                                                *)
(*                                                                         *)
(* Python values are represented as follows.                               *)
(*   str            a sequence of one-character strings                    *)
(*   int            an integer; a letter bitmask is the integer itself     *)
(*   list, tuple    a sequence                                             *)
(*   dict           a sequence of [key, val] records in insertion order    *)
(*   set of int     a set                                                  *)
(*   Optional[int]  None or Some(n)                                        *)
(*   a call         Ok(v) when it returns v, Raise(e) when it raises e     *)
(***************************************************************************)
EXTENDS Integers, Sequences, FiniteSets, TLC

VARIABLES
    word_data_list,        \* WordleSolver.word_data_list, the corpus
    filtered_results,      \* the Results list the last filter_words returned
    overall_distribution,  \* the overall dict of the last compute_letter_distributions
    call,                  \* name of the last operation executed ("start" before any)
    args,                  \* the arguments of that operation
    ret,                   \* what that operation returned or raised
    files,                 \* the corpus files: path -> None (no such file) or Some(lines)
    WORD_DATA,             \* filters._WORD_DATA: None, or Some(list) once it is assigned
    reads,                 \* how many times each loader has opened a corpus file
    loads,                 \* how many times each loader has been called
    filter_button,         \* state of the Filter button: "normal" or "disabled"
    status_text,           \* the status label
    job_queue,             \* jobs submitted to the executor and not yet run
    future,                \* outcome of the job the worker has finished, None otherwise
    after_queue,           \* callbacks scheduled with root.after, oldest first
    thread_pc,             \* where each thread calling filters._load_word_list stands
    line_no,               \* the line of the file each such thread reads next
    handed                 \* what the call of each thread returned or raised

solver_vars == <<word_data_list, filtered_results, overall_distribution>>
loader_vars == <<files, WORD_DATA, reads, loads>>
gui_vars == <<filter_button, status_text, job_queue, future, after_queue>>
thread_vars == <<thread_pc, line_no, handed>>

vars == <<word_data_list, filtered_results, overall_distribution, call, args, ret,
          files, WORD_DATA, reads, loads,
          filter_button, status_text, job_queue, future, after_queue,
          thread_pc, line_no, handed>>

-----------------------------------------------------------------------------
(* Bounds of the model *)

MaxWordLen == 3      \* longest guess / answer in the feedback specification
MaxEntryLen == 2     \* longest corpus word, pattern and word_length in the filter specifications
MaxFreq == 2         \* largest word frequency
MaxCorpus == 3       \* longest corpus of the solver specification
MaxStrLen == 4       \* longest misplaced-letters input of the parser specification
MaxPool == 2         \* longest candidate pool given to the entropy scorer

-----------------------------------------------------------------------------
(* Outcomes of a call *)

Ok(v) == [ok |-> TRUE, val |-> v]
Raise(e) == [ok |-> FALSE, exc |-> e]

\* Optional[int]: None is the empty tuple, the integer n is Some(n)
None == <<>>
Some(n) == <<n>>

\* the paths a corpus is loaded from
Paths == {"frequency.txt", "other.txt"}

\* no corpus file, nothing loaded by filters._load_word_list
LoaderIdle ==
    /\ files = [p \in Paths |-> None]
    /\ WORD_DATA = None
    /\ reads = [filters |-> 0, solver |-> 0]
    /\ loads = [filters |-> 0, solver |-> 0]

\* the window as built: button enabled, nothing submitted or scheduled
GuiIdle ==
    /\ filter_button = "normal"
    /\ status_text = ""
    /\ job_queue = <<>>
    /\ future = None
    /\ after_queue = <<>>

\* the threads that call filters._load_word_list side by side
Threads == {1, 2}

\* no thread has called the loader
ThreadsIdle ==
    /\ thread_pc = [t \in Threads |-> "idle"]
    /\ line_no = [t \in Threads |-> 0]
    /\ handed = [t \in Threads |-> None]

-----------------------------------------------------------------------------
(* Characters and strings *)

LowerLetters == {"a", "b", "c"}
UpperLetters == {"A", "B"}
Chars == LowerLetters \cup UpperLetters \cup {"_", " ", ":", ";", ",", "0", "1", "2", "3"}

\* ord(ch)
Ord(ch) ==
    CASE ch = "a" -> 97 [] ch = "b" -> 98 [] ch = "c" -> 99
      [] ch = "A" -> 65 [] ch = "B" -> 66
      [] ch = "_" -> 95 [] ch = " " -> 32 [] ch = ":" -> 58
      [] ch = ";" -> 59 [] ch = "," -> 44
      [] ch = "0" -> 48 [] ch = "1" -> 49 [] ch = "2" -> 50 [] ch = "3" -> 51

\* str.lower() on one character
LowerChar(ch) ==
    CASE ch = "A" -> "a" [] ch = "B" -> "b" [] OTHER -> ch

\* str.lower()
Lower(s) == [i \in 1..Len(s) |-> LowerChar(s[i])]

\* all strings over alphabet of length lo..hi
StringsOf(alphabet, lo, hi) == UNION {[1..n -> alphabet] : n \in lo..hi}

Min(x, y) == IF x < y THEN x ELSE y

RECURSIVE Pow(_, _)
Pow(b, e) == IF e = 0 THEN 1 ELSE b * Pow(b, e - 1)

RECURSIVE BitAnd(_, _)
BitAnd(x, y) ==
    IF x = 0 \/ y = 0 THEN 0
    ELSE (x % 2) * (y % 2) + 2 * BitAnd(x \div 2, y \div 2)

RECURSIVE BitOr(_, _)
BitOr(x, y) ==
    IF x = 0 THEN y
    ELSE IF y = 0 THEN x
    ELSE (IF x % 2 = 1 \/ y % 2 = 1 THEN 1 ELSE 0) + 2 * BitOr(x \div 2, y \div 2)

-----------------------------------------------------------------------------
(* Bitmask helpers *)

\* _get_char_mask / get_char_mask: 1 << (ord(char) - ord('a')).  ord() raises
\* TypeError unless char is one character; a negative shift raises ValueError.
get_char_mask(char) ==
    IF Len(char) # 1 THEN Raise("TypeError")
    ELSE IF Ord(char[1]) < 97 THEN Raise("ValueError")
    ELSE Ok(Pow(2, Ord(char[1]) - 97))

\* _get_word_mask / get_word_mask: OR of the bits of the letters of word.lower()
RECURSIVE WordMaskFrom(_, _, _)
WordMaskFrom(lw, i, mask) ==
    IF i > Len(lw) THEN Ok(mask)
    ELSE IF Ord(lw[i]) < 97 THEN Raise("ValueError")
    ELSE WordMaskFrom(lw, i + 1, BitOr(mask, Pow(2, Ord(lw[i]) - 97)))

get_word_mask(word) == WordMaskFrom(Lower(word), 1, 0)

\* the dictionary _load_word_list appends for an accepted line
WordData(word, frequency) ==
    [word |-> word, freq |-> frequency, mask |-> get_word_mask(word).val]

-----------------------------------------------------------------------------
(* parse_misplaced_letters *)

\* s.split(sep) for a one-character separator: always at least one piece
RECURSIVE SplitFrom(_, _, _, _, _)
SplitFrom(s, sep, i, cur, acc) ==
    IF i > Len(s) THEN Append(acc, cur)
    ELSE IF s[i] = sep THEN SplitFrom(s, sep, i + 1, <<>>, Append(acc, cur))
    ELSE SplitFrom(s, sep, i + 1, Append(cur, s[i]), acc)

Split(s, sep) == SplitFrom(s, sep, 1, <<>>, <<>>)

\* s.strip(): leading and trailing whitespace removed
RECURSIVE LStrip(_)
LStrip(s) == IF s # <<>> /\ Head(s) = " " THEN LStrip(Tail(s)) ELSE s

RECURSIVE RStrip(_)
RStrip(s) ==
    IF s # <<>> /\ s[Len(s)] = " " THEN RStrip(SubSeq(s, 1, Len(s) - 1)) ELSE s

Strip(s) == RStrip(LStrip(s))

Digits == {"0", "1", "2", "3"}

\* s.isdigit(): at least one character and all of them digits
IsDigit(s) == s # <<>> /\ \A i \in 1..Len(s) : s[i] \in Digits

\* int(s) for a string of decimal digits
RECURSIVE IntFrom(_, _, _)
IntFrom(s, i, n) ==
    IF i > Len(s) THEN n ELSE IntFrom(s, i + 1, 10 * n + (Ord(s[i]) - 48))

IntOf(s) == IntFrom(s, 1, 0)

\* the set comprehension: 0-based positions of the numeric tokens of pos_part
ParsePositions(pos_part) ==
    LET tokens == Split(pos_part, ",")
    IN  {IntOf(Strip(tokens[k])) - 1 : k \in {j \in 1..Len(tokens) : IsDigit(Strip(tokens[j]))}}

\* (mutant) a later entry of a letter replaces the positions of the earlier one
DictUpdateOverwrite(misplaced, letter, positions) ==
    IF \E k \in 1..Len(misplaced) : misplaced[k].key = letter
    THEN [k \in 1..Len(misplaced) |->
             IF misplaced[k].key = letter
             THEN [key |-> letter, val |-> positions]
             ELSE misplaced[k]]
    ELSE Append(misplaced, [key |-> letter, val |-> positions])

\* misplaced[letter].update(positions) or misplaced[letter] = positions
DictUpdate(misplaced, letter, positions) ==
    IF \E k \in 1..Len(misplaced) : misplaced[k].key = letter
    THEN [k \in 1..Len(misplaced) |->
             IF misplaced[k].key = letter
             THEN [key |-> letter, val |-> misplaced[k].val \cup positions]
             ELSE misplaced[k]]
    ELSE Append(misplaced, [key |-> letter, val |-> positions])

\* the loop over the entries; unpacking entry.split(":") into two names raises
\* ValueError unless there are exactly two pieces
RECURSIVE ParseEntries(_, _, _)
ParseEntries(entries, k, misplaced) ==
    IF k > Len(entries) THEN Ok(misplaced)
    ELSE IF \E i \in 1..Len(entries[k]) : entries[k][i] = ":"
         THEN LET parts == Split(entries[k], ":")
              IN  IF Len(parts) # 2 THEN Raise("ValueError")
                  ELSE ParseEntries(entries, k + 1,
                           DictUpdate(misplaced, Lower(Strip(parts[1])),
                                      ParsePositions(parts[2])))
         ELSE ParseEntries(entries, k + 1, misplaced)

parse_misplaced_letters(s) ==
    IF Strip(s) = <<>> THEN Ok(<<>>)
    ELSE ParseEntries(Split(s, ";"), 1, <<>>)

-----------------------------------------------------------------------------
(* _load_word_list *)

\* the loop over the lines of the open file, appending to data.  A line that
\* does not split into two fields, or whose second field int() rejects, is
\* skipped; _get_word_mask raising ends the loop with data as it stands.
RECURSIVE LoadLines(_, _, _)
LoadLines(lines, k, data) ==
    IF k > Len(lines) THEN [ok |-> TRUE, val |-> data, data |-> data]
    ELSE LET parts == Split(Strip(lines[k]), ",")
             word == Strip(parts[1])
             freq_str == Strip(parts[2])
             mask == get_word_mask(word)
         IN  IF Len(parts) # 2 THEN LoadLines(lines, k + 1, data)
             ELSE IF ~IsDigit(freq_str) THEN LoadLines(lines, k + 1, data)
             ELSE IF ~mask.ok THEN [ok |-> FALSE, exc |-> mask.exc, data |-> data]
             ELSE LoadLines(lines, k + 1,
                      Append(data, [word |-> word, freq |-> IntOf(freq_str),
                                    mask |-> mask.val]))

\* WordleSolver._load_word_list: a fresh list on every call, no cache
solver_load_word_list(fs, filename) ==
    IF fs[filename] = None THEN Raise("FileNotFoundError")
    ELSE LET r == LoadLines(fs[filename][1], 1, <<>>)
         IN  IF r.ok THEN Ok(r.val) ELSE Raise(r.exc)

\* (mutant) a loader that reads the file again although the cache is assigned
load_word_list_no_cache(cache, fs, filename) ==
    IF fs[filename] = None
    THEN [ret |-> Raise("FileNotFoundError"), cache |-> Some(<<>>), opened |-> 0]
    ELSE LET r == LoadLines(fs[filename][1], 1, <<>>)
         IN  [ret |-> IF r.ok THEN Ok(r.val) ELSE Raise(r.exc),
              cache |-> Some(r.data), opened |-> 1]

\* filters._load_word_list: _WORD_DATA is assigned [] before the file is
\* opened and filled in place, so it keeps whatever was appended when the
\* call raises; any later call returns it, whatever filename it is given.
\* Gives the outcome of the call, the cache after it and the files opened.
load_word_list(cache, fs, filename) ==
    IF cache # None THEN [ret |-> Ok(cache[1]), cache |-> cache, opened |-> 0]
    ELSE IF fs[filename] = None
         THEN [ret |-> Raise("FileNotFoundError"), cache |-> Some(<<>>), opened |-> 0]
         ELSE LET r == LoadLines(fs[filename][1], 1, <<>>)
              IN  [ret |-> IF r.ok THEN Ok(r.val) ELSE Raise(r.exc),
                   cache |-> Some(r.data), opened |-> 1]

-----------------------------------------------------------------------------
(* _filter_word_with_mask *)

\* 3) Pattern check; lower[i] raises IndexError past the end of the word
RECURSIVE PatternCheck(_, _, _)
PatternCheck(lower, pattern, i) ==
    IF i > Len(pattern) THEN Ok(TRUE)
    ELSE IF pattern[i] = "_" THEN PatternCheck(lower, pattern, i + 1)
    ELSE IF i > Len(lower) THEN Raise("IndexError")
    ELSE IF lower[i] # LowerChar(pattern[i]) THEN Ok(FALSE)
    ELSE PatternCheck(lower, pattern, i + 1)

\* is the letter in one of its bad positions (0-indexed, out of range ignored)
InBadSpot(lower, letter, bad_positions) ==
    \E pos \in bad_positions :
        0 <= pos /\ pos < Len(lower) /\ <<lower[pos + 1]>> = letter

\* (mutant) misplaced check that forgets that the letter must be present
RECURSIVE MisplacedCheckNoPresence(_, _, _, _)
MisplacedCheckNoPresence(lower, word_mask, misplaced_dict, k) ==
    IF k > Len(misplaced_dict) THEN Ok(TRUE)
    ELSE LET letter == misplaced_dict[k].key
             cm == get_char_mask(letter)
         IN  IF ~cm.ok THEN cm
             ELSE IF InBadSpot(lower, letter, misplaced_dict[k].val) THEN Ok(FALSE)
             ELSE MisplacedCheckNoPresence(lower, word_mask, misplaced_dict, k + 1)

\* 4) Misplaced letters check, in the dict's insertion order
RECURSIVE MisplacedCheck(_, _, _, _)
MisplacedCheck(lower, word_mask, misplaced_dict, k) ==
    IF k > Len(misplaced_dict) THEN Ok(TRUE)
    ELSE LET letter == misplaced_dict[k].key
             cm == get_char_mask(letter)
         IN  IF ~cm.ok THEN cm
             ELSE IF BitAnd(word_mask, cm.val) = 0 THEN Ok(FALSE)
             ELSE IF InBadSpot(lower, letter, misplaced_dict[k].val) THEN Ok(FALSE)
             ELSE MisplacedCheck(lower, word_mask, misplaced_dict, k + 1)

filter_word_with_mask(word_data, word_length, pattern, not_allowed_mask, misplaced_dict) ==
    LET word == word_data.word
        word_mask == word_data.mask
        lower == Lower(word)
        pc == PatternCheck(lower, pattern, 1)
    IN  IF word_length # None /\ Len(word) # word_length[1] THEN Ok(FALSE)
        ELSE IF BitAnd(word_mask, not_allowed_mask) # 0 THEN Ok(FALSE)
        ELSE IF ~pc.ok \/ ~pc.val THEN pc
        ELSE MisplacedCheck(lower, word_mask, misplaced_dict, 1)

-----------------------------------------------------------------------------
(* get_feedback_pattern *)

\* Counter(a): occurrences of every character in a (0 for a missing key)
RECURSIVE CountIn(_, _, _)
CountIn(a, ch, i) ==
    IF i > Len(a) THEN 0
    ELSE (IF a[i] = ch THEN 1 ELSE 0) + CountIn(a, ch, i + 1)

Counter(a) == [ch \in Chars |-> CountIn(a, ch, 1)]

\* (mutant) pass 1 that marks a letter green at its first match only
RECURSIVE FeedbackPass1OncePerLetter(_, _, _, _)
FeedbackPass1OncePerLetter(g, a, i, st) ==
    IF i > Len(g) THEN Ok(st)
    ELSE IF i > Len(a) THEN Raise("IndexError")
    ELSE IF g[i] = a[i] /\ ~\E j \in 1..(i - 1) : g[j] = g[i] /\ st.pattern[j] = "G"
         THEN FeedbackPass1OncePerLetter(g, a, i + 1,
                  [pattern |-> [st.pattern EXCEPT ![i] = "G"],
                   answer_counts |-> [st.answer_counts EXCEPT ![g[i]] = @ - 1]])
         ELSE FeedbackPass1OncePerLetter(g, a, i + 1, st)

\* Pass 1: green letters; a[i] raises IndexError when the answer is shorter
RECURSIVE FeedbackPass1(_, _, _, _)
FeedbackPass1(g, a, i, st) ==
    IF i > Len(g) THEN Ok(st)
    ELSE IF i > Len(a) THEN Raise("IndexError")
    ELSE IF g[i] = a[i]
         THEN FeedbackPass1(g, a, i + 1,
                  [pattern |-> [st.pattern EXCEPT ![i] = "G"],
                   answer_counts |-> [st.answer_counts EXCEPT ![g[i]] = @ - 1]])
         ELSE FeedbackPass1(g, a, i + 1, st)

\* (mutant) pass 2 that marks yellow without consuming the answer's letter
RECURSIVE FeedbackPass2NoConsume(_, _, _)
FeedbackPass2NoConsume(g, i, st) ==
    IF i > Len(g) THEN st
    ELSE IF st.pattern[i] = "B" /\ st.answer_counts[g[i]] > 0
         THEN FeedbackPass2NoConsume(g, i + 1,
                  [pattern |-> [st.pattern EXCEPT ![i] = "Y"],
                   answer_counts |-> st.answer_counts])
         ELSE FeedbackPass2NoConsume(g, i + 1, st)

\* Pass 2: yellow letters, left to right
RECURSIVE FeedbackPass2(_, _, _)
FeedbackPass2(g, i, st) ==
    IF i > Len(g) THEN st
    ELSE IF st.pattern[i] = "B" /\ st.answer_counts[g[i]] > 0
         THEN FeedbackPass2(g, i + 1,
                  [pattern |-> [st.pattern EXCEPT ![i] = "Y"],
                   answer_counts |-> [st.answer_counts EXCEPT ![g[i]] = @ - 1]])
         ELSE FeedbackPass2(g, i + 1, st)

get_feedback_pattern(guess, answer) ==
    LET g == Lower(guess)
        a == Lower(answer)
        st0 == [pattern |-> [i \in 1..Len(g) |-> "B"], answer_counts |-> Counter(a)]
        p1 == FeedbackPass1(g, a, 1, st0)
    IN  IF p1.ok THEN Ok(FeedbackPass2(g, 1, p1.val).pattern) ELSE p1

-----------------------------------------------------------------------------
(* Guess scorers.  A Distribution (dict letter -> int, read with .get(ch, 0)) *)
(* is a function from its keys to their counts.                            *)

DictGet(distribution, ch) == IF ch \in DOMAIN distribution THEN distribution[ch] ELSE 0

\* sum(distribution.get(ch, 0) for ch in letters) over a set of letters
RECURSIVE SumOverSet(_, _)
SumOverSet(distribution, letters) ==
    IF letters = {} THEN 0
    ELSE LET ch == CHOOSE c \in letters : TRUE
         IN  DictGet(distribution, ch) + SumOverSet(distribution, letters \ {ch})

\* sum(distribution.get(ch, 0) for ch in s) over the characters of a string
RECURSIVE SumOverSeq(_, _, _)
SumOverSeq(distribution, s, i) ==
    IF i > Len(s) THEN 0
    ELSE DictGet(distribution, s[i]) + SumOverSeq(distribution, s, i + 1)

\* set(s)
SetOf(s) == {s[i] : i \in 1..Len(s)}

\* (mutant) WordleSolver._score_coverage over set(word.lower())
solver_score_coverage_distinct(word, overall) == SumOverSet(overall, SetOf(Lower(word)))

\* WordleSolver._score_coverage: every letter occurrence counts
solver_score_coverage(word, overall) == SumOverSeq(overall, Lower(word), 1)

\* (mutant) filters.score_coverage without set()
score_coverage_per_occurrence(word, overall) == SumOverSeq(overall, Lower(word), 1)

\* filters.score_coverage: every distinct letter counts once
score_coverage(word, overall) == SumOverSet(overall, SetOf(Lower(word)))

\* The weighted entropy of pattern masses m_1..m_n with total T is
\*   -sum (m_k/T) log2 (m_k/T)  =  (1/T) log2 (T^T / prod m_k^m_k).
\* A score is kept exactly as [total |-> T, pp |-> prod m_k^m_k]; the value 0.0
\* returned for a zero total mass is [total |-> 0, pp |-> 1].
ZeroEntropy == [total |-> 0, pp |-> 1]

\* entropy x is greater than entropy y, both taken over the same pool
EntropyGreater(x, y) == x.pp < y.pp
\* entropy x is the number 0 / is a number >= 0
EntropyIsZero(x) == x.pp = Pow(x.total, x.total)
EntropyNonNegative(x) == x.pp <= Pow(x.total, x.total)

\* sum(freq for _, freq in possible_words)
RECURSIVE TotalMass(_, _)
TotalMass(possible_words, i) ==
    IF i > Len(possible_words) THEN 0
    ELSE possible_words[i][2] + TotalMass(possible_words, i + 1)

\* (mutant) a Counter that never merges: every answer is its own class
CounterAddNoMerge(pattern_cnt, pat, freq) ==
    Append(pattern_cnt, [key |-> pat, val |-> freq])

\* pattern_cnt[pat] += freq on a Counter kept in insertion order
CounterAdd(pattern_cnt, pat, freq) ==
    IF \E k \in 1..Len(pattern_cnt) : pattern_cnt[k].key = pat
    THEN [k \in 1..Len(pattern_cnt) |->
             IF pattern_cnt[k].key = pat
             THEN [key |-> pat, val |-> pattern_cnt[k].val + freq]
             ELSE pattern_cnt[k]]
    ELSE Append(pattern_cnt, [key |-> pat, val |-> freq])

\* the loop that partitions the pool by feedback pattern
RECURSIVE PatternCounts(_, _, _, _)
PatternCounts(guess, possible_words, i, pattern_cnt) ==
    IF i > Len(possible_words) THEN Ok(pattern_cnt)
    ELSE LET pat == get_feedback_pattern(guess, possible_words[i][1])
         IN  IF ~pat.ok THEN pat
             ELSE PatternCounts(guess, possible_words, i + 1,
                      CounterAdd(pattern_cnt, pat.val, possible_words[i][2]))

\* ent -= p * math.log2(p) over the masses; math.log2 raises ValueError
\* ("math domain error") when p is not positive
RECURSIVE EntropySum(_, _, _)
EntropySum(pattern_cnt, k, pp) ==
    IF k > Len(pattern_cnt) THEN Ok(pp)
    ELSE IF pattern_cnt[k].val <= 0 THEN Raise("ValueError")
    ELSE EntropySum(pattern_cnt, k + 1,
                    pp * Pow(pattern_cnt[k].val, pattern_cnt[k].val))

score_weighted_entropy(guess, possible_words) ==
    LET total_mass == TotalMass(possible_words, 1)
        cnt == PatternCounts(guess, possible_words, 1, <<>>)
        es == EntropySum(cnt.val, 1, 1)
    IN  IF total_mass = 0 THEN Ok(ZeroEntropy)
        ELSE IF ~cnt.ok THEN cnt
        ELSE IF ~es.ok THEN es
        ELSE Ok([total |-> total_mass, pp |-> es.val])

-----------------------------------------------------------------------------
(* list.sort(key=..., reverse=True): a stable sort, largest key first.     *)
(* SortDesc(seq, keys) sorts seq, keys[k] being the integer key of seq[k]. *)

\* (mutant) insertion that puts x in front of the elements of equal key
InsertDescBeforeEqual(sorted, x) ==
    LET smaller == {i \in 1..Len(sorted) : x.key >= sorted[i].key}
        at == IF smaller = {} THEN Len(sorted) + 1
              ELSE CHOOSE i \in smaller : \A j \in smaller : i <= j
    IN  SubSeq(sorted, 1, at - 1) \o <<x>> \o SubSeq(sorted, at, Len(sorted))

\* x goes in front of the first element whose key is smaller than its key
InsertDesc(sorted, x) ==
    LET smaller == {i \in 1..Len(sorted) : x.key > sorted[i].key}
        at == IF smaller = {} THEN Len(sorted) + 1
              ELSE CHOOSE i \in smaller : \A j \in smaller : i <= j
    IN  SubSeq(sorted, 1, at - 1) \o <<x>> \o SubSeq(sorted, at, Len(sorted))

SortDesc(seq, keys) ==
    LET ins[k \in 0..Len(seq)] ==
            IF k = 0 THEN <<>>
            ELSE InsertDesc(ins[k - 1], [item |-> seq[k], key |-> keys[k]])
    IN  [k \in 1..Len(seq) |-> ins[Len(seq)][k].item]

\* key=lambda x: x[1] on (word, frequency) tuples
FrequencyKeys(results) == [k \in 1..Len(results) |-> results[k][2]]
\* an integer coverage score inside a ranked list, told apart from a float
IntScore(n) == [int |-> n]
\* the same key on (word, coverage score) tuples
CoverageKeys(scores) == [k \in 1..Len(scores) |-> scores[k][2].int]
\* the same key on (word, weighted entropy) tuples, all over one pool: the
\* entropy grows as pp shrinks
EntropyKeys(scores) == [k \in 1..Len(scores) |-> 0 - scores[k][2].pp]

-----------------------------------------------------------------------------
(* filter_words *)

\* results_data = [wd for wd in word_data_list if _filter_word_with_mask(wd, ...)]
RECURSIVE FilterList(_, _, _, _, _, _, _)
FilterList(wdl, i, word_length, pattern, not_allowed_mask, misplaced_dict, acc) ==
    IF i > Len(wdl) THEN Ok(acc)
    ELSE LET keep == filter_word_with_mask(wdl[i], word_length, pattern,
                                           not_allowed_mask, misplaced_dict)
         IN  IF ~keep.ok THEN keep
             ELSE FilterList(wdl, i + 1, word_length, pattern, not_allowed_mask,
                             misplaced_dict,
                             IF keep.val THEN Append(acc, wdl[i]) ELSE acc)

filter_words(wdl, word_length, pattern, not_allowed, misplaced_input) ==
    LET not_allowed_mask == get_word_mask(not_allowed)
        misplaced_dict == parse_misplaced_letters(misplaced_input)
        results_data == FilterList(wdl, 1, word_length, pattern,
                                   not_allowed_mask.val, misplaced_dict.val, <<>>)
        results == [k \in 1..Len(results_data.val) |->
                       <<results_data.val[k].word, results_data.val[k].freq>>]
    IN  IF ~not_allowed_mask.ok THEN not_allowed_mask
        ELSE IF ~misplaced_dict.ok THEN misplaced_dict
        ELSE IF ~results_data.ok THEN results_data
        ELSE Ok(SortDesc(results, FrequencyKeys(results)))

-----------------------------------------------------------------------------
(* compute_letter_distributions *)

\* (mutant) d[ch] = freq: the earlier count of the letter is lost
DistAddOverwrite(d, ch, freq) ==
    [x \in DOMAIN d \cup {ch} |-> IF x = ch THEN freq ELSE d[x]]

\* d[ch] = d.get(ch, 0) + freq
DistAdd(d, ch, freq) ==
    [x \in DOMAIN d \cup {ch} |-> IF x = ch THEN DictGet(d, ch) + freq ELSE d[x]]

\* the inner loop over the letters of one word; positional[i] raises KeyError
\* when the word is longer than the first word of the results
RECURSIVE DistWord(_, _, _, _)
DistWord(lw, freq, i, st) ==
    IF i > Len(lw) THEN Ok(st)
    ELSE IF (i - 1) \notin DOMAIN st.positional THEN Raise("KeyError")
    ELSE DistWord(lw, freq, i + 1,
             [overall |-> DistAdd(st.overall, lw[i], freq),
              positional |-> [st.positional EXCEPT
                                 ![i - 1] = DistAdd(@, lw[i], freq)]])

RECURSIVE DistResults(_, _, _)
DistResults(results, k, st) ==
    IF k > Len(results) THEN Ok(st)
    ELSE LET w == DistWord(Lower(results[k][1]), results[k][2], 1, st)
         IN  IF ~w.ok THEN w ELSE DistResults(results, k + 1, w.val)

compute_letter_distributions(results) ==
    IF results = <<>> THEN Ok([overall |-> <<>>, positional |-> <<>>])
    ELSE DistResults(results, 1,
             [overall |-> <<>>,
              positional |-> [pos \in 0..(Len(results[1][1]) - 1) |-> <<>>]])

-----------------------------------------------------------------------------
(* best_guesses *)

\* scores = [(w, scorer(w)) for w in pool] with the weighted entropy scorer;
\* the first scorer call that raises ends the comprehension
RECURSIVE EntropyScores(_, _, _, _)
EntropyScores(pool, possible_words, k, acc) ==
    IF k > Len(pool) THEN Ok(acc)
    ELSE LET sc == score_weighted_entropy(pool[k], possible_words)
         IN  IF ~sc.ok THEN sc
             ELSE EntropyScores(pool, possible_words, k + 1,
                                Append(acc, <<pool[k], sc.val>>))

\* [d['word'] for d in self.word_data_list
\*  if len(d['word']) == word_length and d['freq'] >= min_frequency]
RECURSIVE SolverCoveragePool(_, _, _, _)
SolverCoveragePool(wdl, k, word_length, min_frequency) ==
    IF k > Len(wdl) THEN <<>>
    ELSE (IF Len(wdl[k].word) = word_length /\ wdl[k].freq >= min_frequency
          THEN <<wdl[k].word>> ELSE <<>>)
           \o SolverCoveragePool(wdl, k + 1, word_length, min_frequency)

\* [d['word'] for d in word_list if len(d['word']) == word_length]
RECURSIVE CoveragePool(_, _, _)
CoveragePool(word_list, k, word_length) ==
    IF k > Len(word_list) THEN <<>>
    ELSE (IF Len(word_list[k].word) = word_length THEN <<word_list[k].word>> ELSE <<>>)
           \o CoveragePool(word_list, k + 1, word_length)

\* (mutant) a slice that keeps one element too many
PrefixInclusive(scores, top_n) == SubSeq(scores, 1, Min(top_n + 1, Len(scores)))

\* scores[:top_n] for top_n >= 0
Prefix(scores, top_n) == SubSeq(scores, 1, Min(top_n, Len(scores)))

\* the small-pool branch, the same in both engines
EntropyBranch(possible_words, top_n) ==
    LET possible_words_only == [k \in 1..Len(possible_words) |-> possible_words[k][1]]
        scores == EntropyScores(possible_words_only, possible_words, 1, <<>>)
    IN  IF ~scores.ok THEN scores
        ELSE Ok(Prefix(SortDesc(scores.val, EntropyKeys(scores.val)), top_n))

\* (mutant) the cutoff test with the boundary excluded
UseEntropyStrict(possible_words, cutoff) == cutoff = None \/ Len(possible_words) < cutoff[1]

\* cutoff is None or len(possible_words) <= cutoff
UseEntropy(possible_words, cutoff) == cutoff = None \/ Len(possible_words) <= cutoff[1]

\* WordleSolver.best_guesses
solver_best_guesses(wdl, possible_words, overall, cutoff, top_n, min_frequency) ==
    IF possible_words = <<>> THEN Ok(<<>>)
    ELSE IF UseEntropy(possible_words, cutoff) THEN EntropyBranch(possible_words, top_n)
    ELSE LET word_length == Len(possible_words[1][1])
             pool == SolverCoveragePool(wdl, 1, word_length, min_frequency)
             scores == [k \in 1..Len(pool) |->
                           <<pool[k], IntScore(solver_score_coverage(pool[k], overall))>>]
         IN  Ok(Prefix(SortDesc(scores, CoverageKeys(scores)), top_n))

\* filters.best_guesses (probe_limit is never read)
best_guesses(possible_words, word_list, overall, cutoff, top_n) ==
    IF possible_words = <<>> THEN Ok(<<>>)
    ELSE IF UseEntropy(possible_words, cutoff) THEN EntropyBranch(possible_words, top_n)
    ELSE LET word_length == Len(possible_words[1][1])
             pool == CoveragePool(word_list, 1, word_length)
             scores == [k \in 1..Len(pool) |->
                           <<pool[k], IntScore(score_coverage(pool[k], overall))>>]
         IN  Ok(Prefix(SortDesc(scores, CoverageKeys(scores)), top_n))

-----------------------------------------------------------------------------
(* find_words_from_remaining_letters *)

\* set("abcdefghijklmnopqrstuvwxyz"), cut down to the letters of the model
Alphabet == LowerLetters

\* _get_word_mask("".join(available_letters)): the OR of the letters' bits,
\* whatever the order of the join
AvailableMask(used_letters, not_allowed_letters) ==
    LET available_letters == (Alphabet \ used_letters) \ not_allowed_letters
        bit(ch) == IF ch \in available_letters THEN Pow(2, Ord(ch) - 97) ELSE 0
    IN  bit("a") + bit("b") + bit("c")

\* (mutant) the loop with the subset test weakened to a common letter
RECURSIVE FindValidWordsAnyLetter(_, _, _, _, _, _)
FindValidWordsAnyLetter(word_list, k, available_mask, overall, word_length, min_frequency) ==
    IF k > Len(word_list) THEN <<>>
    ELSE LET word == word_list[k].word
             word_mask == word_list[k].mask
             rest == FindValidWordsAnyLetter(word_list, k + 1, available_mask, overall,
                                             word_length, min_frequency)
         IN  IF word_length # None /\ Len(word) # word_length[1] THEN rest
             ELSE IF word_list[k].freq < min_frequency THEN rest
             ELSE IF BitAnd(word_mask, available_mask) # 0
                  THEN <<<<word, SumOverSet(overall, SetOf(word))>>>> \o rest
                  ELSE rest

\* the loop over the corpus; the score sums over set(word), the word as stored
RECURSIVE FindValidWords(_, _, _, _, _, _)
FindValidWords(word_list, k, available_mask, overall, word_length, min_frequency) ==
    IF k > Len(word_list) THEN <<>>
    ELSE LET word == word_list[k].word
             word_mask == word_list[k].mask
             rest == FindValidWords(word_list, k + 1, available_mask, overall,
                                    word_length, min_frequency)
         IN  IF word_length # None /\ Len(word) # word_length[1] THEN rest
             ELSE IF word_list[k].freq < min_frequency THEN rest
             ELSE IF BitAnd(word_mask, available_mask) = word_mask
                  THEN <<<<word, SumOverSet(overall, SetOf(word))>>>> \o rest
                  ELSE rest

\* key=lambda x: x[1] on (word, score) tuples
ScoreKeys(valid_words) == [k \in 1..Len(valid_words) |-> valid_words[k][2]]

\* the same function in WordleSolver (over self.word_data_list) and in filters
find_words_from_remaining_letters(word_list, used_letters, not_allowed_letters, overall, word_length, min_frequency) ==
    LET valid_words == FindValidWords(word_list, 1,
                           AvailableMask(used_letters, not_allowed_letters),
                           overall, word_length, min_frequency)
    IN  Ok(SortDesc(valid_words, ScoreKeys(valid_words)))

-----------------------------------------------------------------------------
(* gui.py: apply_filter, run_full_filter, on_filter_complete               *)

\* str(n) for the positions of the model, which stay below 4
Str(n) == <<CASE n = 0 -> "0" [] n = 1 -> "1" [] n = 2 -> "2" [] n = 3 -> "3">>

\* the least string of a set of one-character strings, as sorted() orders them
LeastOf(strings) == CHOOSE x \in strings : \A y \in strings : Ord(x[1]) <= Ord(y[1])

\* "".join(sorted(list(letters))) for a set of one-character strings
RECURSIVE SortedJoin(_)
SortedJoin(letters) ==
    IF letters = {} THEN <<>>
    ELSE LeastOf(letters) \o SortedJoin(letters \ {LeastOf(letters)})

\* ",".join(map(str, sorted(positions)))
RECURSIVE PositionsText(_)
PositionsText(positions) ==
    IF positions = {} THEN <<>>
    ELSE LET p == CHOOSE x \in positions : \A y \in positions : x <= y
             rest == positions \ {p}
         IN  Str(p) \o (IF rest = {} THEN <<>> ELSE <<",">> \o PositionsText(rest))

\* "; ".join(f"{letter}:{...}" for letter, positions in misplaced_map.items())
RECURSIVE MisplacedText(_, _)
MisplacedText(misplaced_map, k) ==
    IF k > Len(misplaced_map) THEN <<>>
    ELSE (IF k > 1 THEN <<";", " ">> ELSE <<>>)
           \o misplaced_map[k].key \o <<":">> \o PositionsText(misplaced_map[k].val)
           \o MisplacedText(misplaced_map, k + 1)

\* misplaced_map[letter].add(pos), the key created with an empty set if new
MisplacedAdd(misplaced_map, letter, pos) ==
    IF \E k \in 1..Len(misplaced_map) : misplaced_map[k].key = letter
    THEN [k \in 1..Len(misplaced_map) |->
             IF misplaced_map[k].key = letter
             THEN [key |-> letter, val |-> misplaced_map[k].val \cup {pos}]
             ELSE misplaced_map[k]]
    ELSE Append(misplaced_map, [key |-> letter, val |-> {pos}])

\* the loop over the cells of the grid.  i % word_length raises
\* ZeroDivisionError for a zero length; a green cell that contradicts a locked
\* letter ends apply_filter after an error box ("Contradiction").
RECURSIVE ProcessCells(_, _, _, _)
ProcessCells(letter_cells, i, word_length, st) ==
    IF i > Len(letter_cells) THEN Ok(st)
    ELSE IF word_length = 0 THEN Raise("ZeroDivisionError")
    ELSE LET letter == letter_cells[i].letter
             state == letter_cells[i].state
             pos_1_based == ((i - 1) % word_length) + 1
         IN  IF letter = <<>> \/ state = "ignored"
             THEN ProcessCells(letter_cells, i + 1, word_length, st)
             ELSE IF state = "green"
             THEN IF st.pattern_list[pos_1_based] # <<"_">>
                     /\ st.pattern_list[pos_1_based] # letter
                  THEN Raise("Contradiction")
                  ELSE ProcessCells(letter_cells, i + 1, word_length,
                           [st EXCEPT !.pattern_list[pos_1_based] = letter])
             ELSE IF state = "yellow"
             THEN ProcessCells(letter_cells, i + 1, word_length,
                      [st EXCEPT !.misplaced_map = MisplacedAdd(@, letter, pos_1_based)])
             ELSE ProcessCells(letter_cells, i + 1, word_length,
                      [st EXCEPT !.not_allowed_letters = @ \cup {letter}])

\* "".join(pattern_list)
RECURSIVE JoinAll(_, _)
JoinAll(strings, k) ==
    IF k > Len(strings) THEN <<>> ELSE strings[k] \o JoinAll(strings, k + 1)

\* apply_filter up to the submission: the arguments of the job, or the error
\* that ends the handler before the button is disabled.  The word length
\* entry and word_length_var hold the same text, so the second int() cannot
\* fail once the first has succeeded.
FilterInputs(word_length_text, letter_cells, not_allowed_text) ==
    IF ~IsDigit(Strip(word_length_text)) THEN Raise("ValueError")
    ELSE LET word_length == IntOf(Strip(word_length_text))
             cells == ProcessCells(letter_cells, 1, word_length,
                          [pattern_list |-> [k \in 1..word_length |-> <<"_">>],
                           not_allowed_letters |->
                               {<<ch>> : ch \in SetOf(Lower(Strip(not_allowed_text)))},
                           misplaced_map |-> <<>>])
         IN  IF ~cells.ok THEN cells
             ELSE LET pattern_list == cells.val.pattern_list
                      misplaced_map == cells.val.misplaced_map
                      in_pattern == {pattern_list[k] : k \in 1..Len(pattern_list)} \ {<<"_">>}
                      not_allowed_letters == cells.val.not_allowed_letters \ in_pattern
                  IN  Ok([word_length |-> Some(word_length),
                          pattern |-> JoinAll(pattern_list, 1),
                          not_allowed |-> SortedJoin(not_allowed_letters),
                          misplaced_input |-> MisplacedText(misplaced_map, 1),
                          used_letters |->
                              {misplaced_map[k].key : k \in 1..Len(misplaced_map)}
                                \cup in_pattern,
                          not_allowed_letters |-> not_allowed_letters])

\* best_guesses' defaults
DefaultCutoff == 250
DefaultTopN == 15

\* the element of a one-element set; {body : x \in {e}} computes e once
\* and names its value x in body
TheOnly(S) == CHOOSE x \in S : TRUE

\* run_full_filter: load, filter (the second load finds the cache assigned),
\* aggregate, rank.  Gives the outcome, the cache afterwards and the files
\* opened; an exception of a step ends the job with that exception.
run_full_filter(cache, fs, job) ==
    TheOnly({
        IF ~loaded.ret.ok THEN loaded
        ELSE [loaded EXCEPT !.ret = TheOnly({
            IF ~results.ok THEN results
            ELSE TheOnly({
                IF ~dist.ok THEN dist
                ELSE TheOnly({
                    IF ~best.ok THEN best
                    ELSE Ok([results |-> results.val,
                             best_guess_list |-> best.val,
                             overall_distribution |-> dist.val.overall])
                    : best \in {best_guesses(results.val, loaded.ret.val, dist.val.overall,
                                             Some(DefaultCutoff), DefaultTopN)}})
                : dist \in {compute_letter_distributions(results.val)}})
            : results \in {filter_words(loaded.ret.val, job.word_length, job.pattern,
                                        job.not_allowed, job.misplaced_input)}})]
        : loaded \in {load_word_list(cache, fs, "frequency.txt")}})

\* on_filter_complete: the callbacks it schedules with root.after
CompletionCallbacks(outcome) ==
    IF outcome.ok
    THEN <<[fn |-> "update_ui", results |-> outcome.val.results]>>
    ELSE IF outcome.exc = "FileNotFoundError"
    THEN <<[fn |-> "showerror"], [fn |-> "enable_button"],
           [fn |-> "set_status", text |-> "Error: file not found"]>>
    ELSE <<[fn |-> "showerror"], [fn |-> "enable_button"],
           [fn |-> "set_status", text |-> "Error during filtering"]>>

-----------------------------------------------------------------------------
(* Specification of the feedback evaluator: a guess and an answer are      *)
(* drawn, then get_feedback_pattern is applied to them.                    *)

FeedbackChars == {"a", "b", "A"}
FeedbackWords == StringsOf(FeedbackChars, 1, MaxWordLen)

NoSolver ==
    /\ word_data_list = <<>>
    /\ filtered_results = <<>>
    /\ overall_distribution = <<>>

InitFeedback ==
    /\ NoSolver
    /\ call = "start"
    /\ args \in [guess : FeedbackWords, answer : FeedbackWords]
    /\ ret = None
    /\ LoaderIdle
    /\ GuiIdle
    /\ ThreadsIdle

GetFeedbackPattern ==
    /\ call = "start"
    /\ call' = "get_feedback_pattern"
    /\ ret' = get_feedback_pattern(args.guess, args.answer)
    /\ UNCHANGED <<word_data_list, filtered_results, overall_distribution, args>>
    /\ UNCHANGED <<loader_vars, gui_vars, thread_vars>>

NextFeedback == GetFeedbackPattern

SpecFeedback == InitFeedback /\ [][NextFeedback]_vars

FeedbackDone == call = "get_feedback_pattern" /\ Len(args.guess) = Len(args.answer)

\* answer occurrences of guess[i] that no Exact match consumed
FeedbackSupply(g, a, i) ==
    Cardinality({j \in 1..Len(a) : a[j] = g[i]})
      - Cardinality({j \in 1..Len(g) : g[j] = a[j] /\ g[j] = g[i]})

\* earlier non-Exact positions of the same letter that pat marks Present
FeedbackEarlierPresent(g, a, pat, i) ==
    Cardinality({j \in 1..(i - 1) : g[j] = g[i] /\ g[j] # a[j] /\ pat[j] = "Y"})

\* C3: for a guess and an answer of the same length (letters compared after
\* case folding), position i is G iff guess[i] = answer[i]; a non-Exact
\* position i is Y iff the answer's occurrences of guess[i] left over by the
\* Exact matches outnumber the earlier non-Exact positions of that letter
\* already marked Y; every other position is B.
C3_FeedbackCharacterised ==
    FeedbackDone =>
        LET g == Lower(args.guess)
            a == Lower(args.answer)
        IN  /\ ret.ok
            /\ Len(ret.val) = Len(g)
            /\ \A i \in 1..Len(g) :
                 LET present == g[i] # a[i]
                        /\ FeedbackSupply(g, a, i) > FeedbackEarlierPresent(g, a, ret.val, i)
                 IN  /\ (ret.val[i] = "G") <=> (g[i] = a[i])
                     /\ (ret.val[i] = "Y") <=> present
                     /\ (ret.val[i] = "B") <=> (g[i] # a[i] /\ ~present)

\* C3 witness: a duplicated letter with limited supply, the leftmost
\* non-Exact occurrence is Present and a later one is Absent
C3_Witness ==
    /\ FeedbackDone
    /\ ret.ok
    /\ \E i, j \in 1..Len(args.guess) :
            /\ i < j
            /\ Lower(args.guess)[i] = Lower(args.guess)[j]
            /\ ret.val[i] = "Y"
            /\ ret.val[j] = "B"

-----------------------------------------------------------------------------
(* Specification of the filter predicate: a corpus entry and a constraint  *)
(* are drawn, then _filter_word_with_mask is applied to them.              *)

EntryChars == {"a", "b", "A"}
EntryWords == StringsOf(EntryChars, 1, MaxEntryLen)
PatternChars == {"_", "a", "B"}
Patterns == StringsOf(PatternChars, 0, MaxEntryLen)
WordLengths == {None} \cup {Some(n) : n \in 1..MaxEntryLen}
NotAllowedMasks == {0, 1, 2}
\* sets of 0-indexed bad positions: empty, in range, out of range
PositionSets == {{}, {0}, {1}, {0, 1}, {-1, MaxEntryLen}}
\* misplaced dicts as parse_misplaced_letters builds them from letter entries
MisplacedLetters == {<<"a">>, <<"b">>}
MisplacedDicts ==
    {<<>>}
      \cup {<<[key |-> l, val |-> ps]>> : l \in MisplacedLetters, ps \in PositionSets}
      \cup {<<[key |-> l1, val |-> ps1], [key |-> l2, val |-> ps2]>> :
               <<l1, l2>> \in {<<p, q>> \in MisplacedLetters \X MisplacedLetters : p # q},
               <<ps1, ps2>> \in PositionSets \X PositionSets}

InitPasses ==
    /\ NoSolver
    /\ call = "start"
    /\ args \in [word_data : {WordData(w, 1) : w \in EntryWords},
                 word_length : WordLengths,
                 pattern : Patterns,
                 not_allowed_mask : NotAllowedMasks,
                 misplaced_dict : MisplacedDicts]
    /\ ret = None
    /\ LoaderIdle
    /\ GuiIdle
    /\ ThreadsIdle

FilterWordWithMask ==
    /\ call = "start"
    /\ call' = "filter_word_with_mask"
    /\ ret' = filter_word_with_mask(args.word_data, args.word_length, args.pattern,
                                    args.not_allowed_mask, args.misplaced_dict)
    /\ UNCHANGED <<word_data_list, filtered_results, overall_distribution, args>>
    /\ UNCHANGED <<loader_vars, gui_vars, thread_vars>>

NextPasses == FilterWordWithMask

SpecPasses == InitPasses /\ [][NextPasses]_vars

\* bit number of a lowercase letter in a letter mask
LetterIndex(ch) == Ord(ch) - 97
HasBit(mask, n) == (mask \div Pow(2, n)) % 2 = 1

\* (1) the constraint length is unset or equals the word's length
LengthOk(word, word_length) == word_length = None \/ Len(word) = word_length[1]
\* (2) the word contains none of the excluded letters
ExcludedOk(word, not_allowed_mask) ==
    \A i \in 1..Len(word) : ~HasBit(not_allowed_mask, LetterIndex(LowerChar(word[i])))
\* (3) every non-wildcard pattern position holds the pattern's letter
PatternOk(word, pattern) ==
    \A i \in 1..Len(pattern) :
        pattern[i] # "_" => (i <= Len(word) /\ LowerChar(word[i]) = LowerChar(pattern[i]))
\* (4) every misplaced letter occurs in the word and in none of its bad positions
MisplacedOk(word, misplaced_dict) ==
    \A k \in 1..Len(misplaced_dict) :
        LET letter == misplaced_dict[k].key[1]
        IN  /\ \E i \in 1..Len(word) : LowerChar(word[i]) = letter
            /\ \A pos \in misplaced_dict[k].val :
                   (pos + 1) \in 1..Len(word) => LowerChar(word[pos + 1]) # letter

\* C1: _filter_word_with_mask returns True exactly when the length, excluded
\* letters, pattern and misplaced-letter conditions all hold; a misplaced
\* letter with no bad position must still be present.
C1_PassesIffAllFour ==
    call = "filter_word_with_mask" =>
        ((ret.ok /\ ret.val)
           <=> /\ LengthOk(args.word_data.word, args.word_length)
               /\ ExcludedOk(args.word_data.word, args.not_allowed_mask)
               /\ PatternOk(args.word_data.word, args.pattern)
               /\ MisplacedOk(args.word_data.word, args.misplaced_dict))

\* C1 witness: the word meets the length, excluded and pattern conditions and
\* is rejected only because a misplaced letter with no bad position is absent
C1_Witness ==
    /\ call = "filter_word_with_mask"
    /\ ret.ok /\ ~ret.val
    /\ LengthOk(args.word_data.word, args.word_length)
    /\ ExcludedOk(args.word_data.word, args.not_allowed_mask)
    /\ PatternOk(args.word_data.word, args.pattern)
    /\ \E l \in {"a", "b"} : \E i \in 1..Len(args.pattern) : args.pattern[i] = l
    /\ Len(args.misplaced_dict) = 1
    /\ args.misplaced_dict[1].val = {}
    /\ \A i \in 1..Len(args.word_data.word) :
           LowerChar(args.word_data.word[i]) # args.misplaced_dict[1].key[1]

-----------------------------------------------------------------------------
(* Specification of the coverage scorers: a word and a distribution are    *)
(* drawn, then either engine's coverage scorer is applied to them.         *)

CoverageWords == StringsOf({"a", "b", "A"}, 1, MaxWordLen)
CoverageDistributions == UNION {[keys -> 0..MaxFreq] : keys \in SUBSET {"a", "b"}}

InitCoverage ==
    /\ NoSolver
    /\ call = "start"
    /\ args \in [word : CoverageWords, overall_distribution : CoverageDistributions]
    /\ ret = None
    /\ LoaderIdle
    /\ GuiIdle
    /\ ThreadsIdle

\* filters.score_coverage
ScoreCoverage ==
    /\ call = "start"
    /\ call' = "filters.score_coverage"
    /\ ret' = Ok(score_coverage(args.word, args.overall_distribution))
    /\ UNCHANGED <<word_data_list, filtered_results, overall_distribution, args>>
    /\ UNCHANGED <<loader_vars, gui_vars, thread_vars>>

\* WordleSolver._score_coverage
SolverScoreCoverage ==
    /\ call = "start"
    /\ call' = "WordleSolver._score_coverage"
    /\ ret' = Ok(solver_score_coverage(args.word, args.overall_distribution))
    /\ UNCHANGED <<word_data_list, filtered_results, overall_distribution, args>>
    /\ UNCHANGED <<loader_vars, gui_vars, thread_vars>>

NextCoverage == ScoreCoverage \/ SolverScoreCoverage

SpecCoverage == InitCoverage /\ [][NextCoverage]_vars

\* the letters a..c, each with its count when it occurs in the word
DistinctLetterSum(word, distribution) ==
    LET in(ch) == IF (\E i \in 1..Len(word) : LowerChar(word[i]) = ch)
                     /\ ch \in DOMAIN distribution
                  THEN distribution[ch] ELSE 0
    IN  in("a") + in("b") + in("c")

\* the letters a..c, each with its count times its occurrences in the word
OccurrenceSum(word, distribution) ==
    LET occ(ch) == Cardinality({i \in 1..Len(word) : LowerChar(word[i]) = ch})
        cnt(ch) == IF ch \in DOMAIN distribution THEN distribution[ch] ELSE 0
    IN  occ("a") * cnt("a") + occ("b") * cnt("b") + occ("c") * cnt("c")

CoverageDone == call \in {"filters.score_coverage", "WordleSolver._score_coverage"}

\* C6 as claimed: in every engine variant the coverage score is the sum of
\* the counts of the word's distinct letters, each counted once.
C6_Original_EveryVariantDistinct ==
    CoverageDone => ret.val = DistinctLetterSum(args.word, args.overall_distribution)

\* C6 as amended: filters.score_coverage is the sum of the counts of the
\* word's distinct letters, each counted once (WordleSolver._score_coverage
\* is not: see C7).
C6_FiltersCoverageDistinct ==
    call = "filters.score_coverage" =>
        ret.val = DistinctLetterSum(args.word, args.overall_distribution)

\* C6 witness: a word with a repeated letter of non-zero count is scored by
\* filters.score_coverage
C6_Witness ==
    /\ call = "filters.score_coverage"
    /\ \E i, j \in 1..Len(args.word) :
           /\ i < j
           /\ LowerChar(args.word[i]) = LowerChar(args.word[j])
           /\ DictGet(args.overall_distribution, LowerChar(args.word[i])) > 0
    /\ ret.val > 0

\* C7: WordleSolver._score_coverage is the sum of the letter's count over
\* every letter occurrence of the word; an absent letter contributes 0.
C7_SolverCoverageOccurrences ==
    call = "WordleSolver._score_coverage" =>
        ret.val = OccurrenceSum(args.word, args.overall_distribution)

\* C7 witness: a word with a repeated letter of non-zero count and a letter
\* missing from the distribution is scored by WordleSolver._score_coverage
C7_Witness ==
    /\ call = "WordleSolver._score_coverage"
    /\ \E i, j \in 1..Len(args.word) :
           /\ i < j
           /\ LowerChar(args.word[i]) = LowerChar(args.word[j])
           /\ DictGet(args.overall_distribution, LowerChar(args.word[i])) > 0
    /\ \E i \in 1..Len(args.word) : LowerChar(args.word[i]) \notin DOMAIN args.overall_distribution
    /\ ret.val > DistinctLetterSum(args.word, args.overall_distribution)

-----------------------------------------------------------------------------
(* Specification of the weighted entropy scorer: a guess and a pool of     *)
(* (answer, frequency) pairs of the guess's length are drawn, then         *)
(* _score_weighted_entropy is applied to them.                             *)

EntropyGuesses == StringsOf({"a", "c"}, MaxEntryLen, MaxEntryLen)
EntropyWords == StringsOf({"a", "b"}, MaxEntryLen, MaxEntryLen)
EntropyPools == UNION {[1..n -> EntropyWords \X (0..MaxFreq)] : n \in 0..MaxPool}

InitEntropy ==
    /\ NoSolver
    /\ call = "start"
    /\ args \in [guess : EntropyGuesses, possible_words : EntropyPools]
    /\ ret = None
    /\ LoaderIdle
    /\ GuiIdle
    /\ ThreadsIdle

ScoreWeightedEntropy ==
    /\ call = "start"
    /\ call' = "score_weighted_entropy"
    /\ ret' = score_weighted_entropy(args.guess, args.possible_words)
    /\ UNCHANGED <<word_data_list, filtered_results, overall_distribution, args>>
    /\ UNCHANGED <<loader_vars, gui_vars, thread_vars>>

NextEntropy == ScoreWeightedEntropy

SpecEntropy == InitEntropy /\ [][NextEntropy]_vars

EntropyDone == call = "score_weighted_entropy"

\* every candidate of the pool produces the same feedback pattern
SinglePattern(guess, possible_words) ==
    \A i, j \in 1..Len(possible_words) :
        get_feedback_pattern(guess, possible_words[i][1])
          = get_feedback_pattern(guess, possible_words[j][1])

PoolMass(possible_words) == TotalMass(possible_words, 1)

\* C8 as claimed: the score is >= 0 and is 0 iff every candidate of the pool
\* produces the same feedback pattern.
C8_Original_ZeroIffSinglePattern ==
    (EntropyDone /\ ret.ok) =>
        /\ EntropyNonNegative(ret.val)
        /\ EntropyIsZero(ret.val) <=> SinglePattern(args.guess, args.possible_words)

\* C8 as amended: a score that is returned is >= 0, and it is 0 iff the pool's
\* total mass is zero or every candidate produces the same feedback pattern.
C8_ZeroIffNoMassOrSinglePattern ==
    (EntropyDone /\ ret.ok) =>
        /\ EntropyNonNegative(ret.val)
        /\ EntropyIsZero(ret.val)
             <=> (PoolMass(args.possible_words) = 0
                    \/ SinglePattern(args.guess, args.possible_words))

\* C8 witness: a pool of positive mass whose candidates all produce one
\* pattern, scored 0
C8_Witness ==
    /\ EntropyDone /\ ret.ok
    /\ Len(args.possible_words) = MaxPool
    /\ \A i \in 1..Len(args.possible_words) : args.possible_words[i][2] > 0
    /\ args.possible_words[1][1] # args.possible_words[2][1]
    /\ SinglePattern(args.guess, args.possible_words)
    /\ EntropyIsZero(ret.val)

\* C8 second witness: a pool split over several patterns, scored above 0
C8_WitnessPositive ==
    /\ EntropyDone /\ ret.ok
    /\ ~SinglePattern(args.guess, args.possible_words)
    /\ ~EntropyIsZero(ret.val)

\* C9 as claimed: the scorer returns a number for every pool of answers of
\* the guess's length with non-negative frequencies.
C9_EntropyTotal == EntropyDone => ret.ok

-----------------------------------------------------------------------------
(* Specification of the solver: a corpus is loaded, then queries run the   *)
(* pipeline of gui.run_full_filter: filter_words, then                     *)
(* compute_letter_distributions on its result, then best_guesses.          *)

CorpusWords == StringsOf({"a", "b"}, 1, MaxEntryLen)
CorpusEntries == {WordData(w, f) : w \in CorpusWords, f \in 1..MaxFreq}
Corpora == UNION {[1..n -> CorpusEntries] : n \in 0..MaxCorpus}

FilterPatterns == {<<>>, <<"_", "b">>, <<"A">>}
FilterNotAllowed == {<<>>, <<"b">>}
FilterMisplaced == {<<>>, <<"a", ":", "1">>, <<"b", ":", "2">>, <<"a", ":">>}
Cutoffs == {None} \cup {Some(n) : n \in 1..(MaxCorpus - 1)}
TopNs == 0..MaxCorpus
MinFrequencies == {0, MaxFreq}

Init ==
    /\ word_data_list \in Corpora
    /\ filtered_results = <<>>
    /\ overall_distribution = <<>>
    /\ call = "start"
    /\ args = <<>>
    /\ ret = None
    /\ LoaderIdle
    /\ GuiIdle
    /\ ThreadsIdle

\* (Init: the corpus is whatever the constructor loaded; its file plays no
\* part afterwards and is left out of this specification)
\* every query starts from the loaded corpus alone: nothing of an earlier
\* query is read by a later one, so one query per behaviour is modelled
FilterWords ==
    /\ call = "start"
    /\ \E word_length \in WordLengths, pattern \in FilterPatterns,
       not_allowed \in FilterNotAllowed, misplaced_input \in FilterMisplaced :
        /\ call' = "filter_words"
        /\ args' = [word_length |-> word_length, pattern |-> pattern,
                    not_allowed |-> not_allowed, misplaced_input |-> misplaced_input]
        /\ ret' = filter_words(word_data_list, word_length, pattern, not_allowed,
                               misplaced_input)
        /\ filtered_results' = IF ret'.ok THEN ret'.val ELSE <<>>
        /\ overall_distribution' = <<>>
        /\ UNCHANGED word_data_list
    /\ UNCHANGED <<loader_vars, gui_vars, thread_vars>>

ComputeLetterDistributions ==
    /\ call = "filter_words" /\ ret.ok
    /\ call' = "compute_letter_distributions"
    /\ args' = [results |-> filtered_results]
    /\ ret' = compute_letter_distributions(filtered_results)
    /\ overall_distribution' = IF ret'.ok THEN ret'.val.overall ELSE <<>>
    /\ UNCHANGED <<word_data_list, filtered_results>>
    /\ UNCHANGED <<loader_vars, gui_vars, thread_vars>>

\* WordleSolver.best_guesses
BestGuesses ==
    /\ call = "compute_letter_distributions" /\ ret.ok
    /\ \E cutoff \in Cutoffs, top_n \in TopNs, min_frequency \in MinFrequencies :
        /\ call' = "WordleSolver.best_guesses"
        /\ args' = [cutoff |-> cutoff, top_n |-> top_n, min_frequency |-> min_frequency]
        /\ ret' = solver_best_guesses(word_data_list, filtered_results,
                                      overall_distribution, cutoff, top_n, min_frequency)
    /\ UNCHANGED <<word_data_list, filtered_results, overall_distribution>>
    /\ UNCHANGED <<loader_vars, gui_vars, thread_vars>>

\* filters.best_guesses, as gui.run_full_filter calls it
FiltersBestGuesses ==
    /\ call = "compute_letter_distributions" /\ ret.ok
    /\ \E cutoff \in Cutoffs, top_n \in TopNs :
        /\ call' = "filters.best_guesses"
        /\ args' = [cutoff |-> cutoff, top_n |-> top_n]
        /\ ret' = best_guesses(filtered_results, word_data_list,
                               overall_distribution, cutoff, top_n)
    /\ UNCHANGED <<word_data_list, filtered_results, overall_distribution>>
    /\ UNCHANGED <<loader_vars, gui_vars, thread_vars>>

Next == FilterWords \/ ComputeLetterDistributions \/ BestGuesses \/ FiltersBestGuesses

Spec == Init /\ [][Next]_vars

FilterDone == call = "filter_words" /\ ret.ok

\* corpus entry k passes the constraint of the filter_words call (C1's four
\* conditions, the excluded letters read from the not_allowed string)
PassesConstraint(k) ==
    LET w == word_data_list[k].word
    IN  /\ LengthOk(w, args.word_length)
        /\ \A i \in 1..Len(w), j \in 1..Len(args.not_allowed) :
               LowerChar(w[i]) # LowerChar(args.not_allowed[j])
        /\ PatternOk(w, args.pattern)
        /\ MisplacedOk(w, parse_misplaced_letters(args.misplaced_input).val)

Passing == {k \in 1..Len(word_data_list) : PassesConstraint(k)}

\* the place of passing entry k in the result: after every passing entry of
\* greater frequency and every earlier passing entry of equal frequency
FilterRank(k) ==
    Cardinality({j \in Passing : word_data_list[j].freq > word_data_list[k].freq})
      + Cardinality({j \in Passing : j < k /\ word_data_list[j].freq = word_data_list[k].freq})

\* C2: filter_words returns exactly the passing corpus entries as (word,
\* frequency) pairs, frequency descending, equal frequencies in corpus order.
C2_FilterWordsSortedStable ==
    FilterDone =>
        /\ Len(ret.val) = Cardinality(Passing)
        /\ \A k \in Passing :
               ret.val[FilterRank(k) + 1]
                 = <<word_data_list[k].word, word_data_list[k].freq>>

\* C2 witness: an entry is rejected, two kept entries of equal frequency and
\* different words stay in corpus order, and a kept entry of greater frequency
\* overtakes an earlier one
C2_Witness ==
    /\ FilterDone
    /\ Len(ret.val) = MaxCorpus - 1
    /\ Len(word_data_list) = MaxCorpus
    /\ args.misplaced_input # <<>>
    /\ \E i, j \in Passing :
           /\ i < j
           /\ word_data_list[i].freq < word_data_list[j].freq
           /\ word_data_list[i].word # word_data_list[j].word

\* C2 second witness: a tie between different words, kept in corpus order
C2_WitnessTie ==
    /\ FilterDone
    /\ \E i, j \in Passing :
           /\ i < j
           /\ word_data_list[i].freq = word_data_list[j].freq
           /\ word_data_list[i].word # word_data_list[j].word
    /\ \E i, j \in Passing : word_data_list[i].freq > word_data_list[j].freq

BestDone == call \in {"WordleSolver.best_guesses", "filters.best_guesses"}

\* the pool size is within the cutoff (or there is no cutoff)
SmallPool == args.cutoff = None \/ Len(filtered_results) <= args.cutoff[1]

\* filters.best_guesses has no min_frequency parameter
MinFrequencyOf == IF call = "WordleSolver.best_guesses" THEN args.min_frequency ELSE 0

\* the words the claim says are scored, in their original order
ExpectedPool ==
    IF SmallPool
    THEN [k \in 1..Len(filtered_results) |-> filtered_results[k][1]]
    ELSE LET same == {k \in 1..Len(word_data_list) :
                         /\ Len(word_data_list[k].word) = Len(filtered_results[1][1])
                         /\ word_data_list[k].freq >= MinFrequencyOf}
             nth(n) == CHOOSE k \in same : Cardinality({j \in same : j < k}) = n - 1
         IN  [n \in 1..Cardinality(same) |-> word_data_list[nth(n)].word]

\* the score the claim says a scored word gets
ExpectedScore(w) ==
    IF SmallPool THEN score_weighted_entropy(w, filtered_results).val
    ELSE IF call = "WordleSolver.best_guesses"
         THEN IntScore(OccurrenceSum(w, overall_distribution))
         ELSE IntScore(DistinctLetterSum(w, overall_distribution))

Occurrences(seq, x) == Cardinality({k \in 1..Len(seq) : seq[k] = x})

ReturnedWords == [k \in 1..Len(ret.val) |-> ret.val[k][1]]

\* C4: an empty candidate pool yields an empty list; within the cutoff
\* (boundary included, or no cutoff) the scored words are exactly the
\* candidates, scored by weighted entropy against the pool; otherwise they are
\* exactly the corpus words of the candidates' length and of frequency >=
\* min_frequency, scored by coverage.  The returned list holds scored words
\* only, each with that score, and all of them when top_n does not truncate.
C4_StrategyByPoolSize ==
    BestDone =>
        /\ filtered_results = <<>> => ret = Ok(<<>>)
        /\ (filtered_results # <<>> /\ ~SmallPool) => ret.ok
        /\ (filtered_results # <<>> /\ ret.ok) =>
              LET pool == ExpectedPool
                  returned == ReturnedWords
              IN  /\ \A k \in 1..Len(ret.val) :
                         /\ Occurrences(returned, ret.val[k][1])
                              <= Occurrences(pool, ret.val[k][1])
                         /\ ret.val[k][2] = ExpectedScore(ret.val[k][1])
                  /\ Len(ret.val) = Min(args.top_n, Len(pool))

\* C4 witness: the pool size equals the cutoff, a corpus word of the
\* candidates' length lies outside the pool and every candidate is returned
\* with its entropy
C4_Witness ==
    /\ BestDone /\ ret.ok
    /\ args.cutoff # None
    /\ Len(filtered_results) = args.cutoff[1]
    /\ Len(ret.val) = Len(filtered_results)
    /\ Len(ret.val) > 1
    /\ \E k \in 1..Len(word_data_list) :
           /\ Len(word_data_list[k].word) = Len(filtered_results[1][1])
           /\ Occurrences(ReturnedWords, word_data_list[k].word) = 0

\* C4 second witness: a pool above the cutoff, the coverage branch returns a
\* word that is no candidate
C4_WitnessCoverage ==
    /\ BestDone /\ ret.ok
    /\ ~SmallPool
    /\ \E k \in 1..Len(ret.val) :
           \A j \in 1..Len(filtered_results) : filtered_results[j][1] # ret.val[k][1]

\* the scored pool: every word of the expected pool with its score
ScoredPool == [k \in 1..Len(ExpectedPool) |-> <<ExpectedPool[k], ExpectedScore(ExpectedPool[k])>>]

ScoreGreater(x, y) == IF SmallPool THEN EntropyGreater(x, y) ELSE x.int > y.int

\* the place of element k of the scored pool sp after a stable sort by score
\* descending
ScoreRank(sp, k) ==
    Cardinality({j \in 1..Len(sp) : ScoreGreater(sp[j][2], sp[k][2])})
      + Cardinality({j \in 1..(k - 1) : sp[j][2] = sp[k][2]})

\* C5: the returned list has length <= top_n and is the first top_n elements
\* of the scored pool sorted by score descending, equal scores in the scored
\* pool's original order.
C5_TopNStableDescending ==
    (BestDone /\ ret.ok /\ filtered_results # <<>>) =>
        LET sp == ScoredPool
        IN  /\ Len(ret.val) <= args.top_n
            /\ Len(ret.val) = Min(args.top_n, Len(sp))
            /\ \A k \in 1..Len(sp) :
                   ScoreRank(sp, k) < args.top_n => ret.val[ScoreRank(sp, k) + 1] = sp[k]

\* C5 witness: the list is truncated, two different words of equal score are
\* both returned, and a later word of greater score overtakes an earlier one
C5_Witness ==
    /\ BestDone /\ ret.ok /\ filtered_results # <<>>
    /\ 0 < args.top_n
    /\ LET sp == ScoredPool
       IN  /\ args.top_n < Len(sp)
           /\ \E i, j \in 1..Len(sp) :
                  /\ i < j
                  /\ sp[i][2] = sp[j][2]
                  /\ sp[i][1] # sp[j][1]
                  /\ ScoreRank(sp, j) < args.top_n
           /\ \E i, j \in 1..Len(sp) : i < j /\ ScoreGreater(sp[j][2], sp[i][2])

-----------------------------------------------------------------------------
(* Specification of the constraint parser: a solver with a one-word corpus *)
(* is given a misplaced-letters string, which is either parsed or passed   *)
(* to filter_words.                                                        *)

ParseChars == {"a", "b", "A", ":", ";", ",", "1", "2", " "}
ParseInputs == StringsOf(ParseChars, 0, MaxStrLen)
ParseCorpus == <<WordData(<<"a", "b">>, 1)>>

InitParse ==
    /\ word_data_list = ParseCorpus
    /\ filtered_results = <<>>
    /\ overall_distribution = <<>>
    /\ call = "start"
    /\ args \in [s : ParseInputs]
    /\ ret = None
    /\ LoaderIdle
    /\ GuiIdle
    /\ ThreadsIdle

ParseMisplacedLetters ==
    /\ call = "start"
    /\ call' = "parse_misplaced_letters"
    /\ ret' = parse_misplaced_letters(args.s)
    /\ UNCHANGED <<word_data_list, filtered_results, overall_distribution, args>>
    /\ UNCHANGED <<loader_vars, gui_vars, thread_vars>>

\* filter_words(2, "__", "", s): only the misplaced input can make it fail
FilterWordsMisplaced ==
    /\ call = "start"
    /\ call' = "filter_words"
    /\ ret' = filter_words(word_data_list, Some(2), <<"_", "_">>, <<>>, args.s)
    /\ filtered_results' = IF ret'.ok THEN ret'.val ELSE <<>>
    /\ UNCHANGED <<word_data_list, overall_distribution, args>>
    /\ UNCHANGED <<loader_vars, gui_vars, thread_vars>>

NextParse == ParseMisplacedLetters \/ FilterWordsMisplaced

SpecParse == InitParse /\ [][NextParse]_vars

\* C10 as claimed: parse_misplaced_letters raises for no input string, and
\* filter_words consumes the mapping it returns without an error.
C10_ParserNeverRaises ==
    call \in {"parse_misplaced_letters", "filter_words"} => ret.ok

-----------------------------------------------------------------------------
(* Specification of the parser on entry lists: the input string is written *)
(* out from a list of entries `letter[:token,token...]` joined by ";", so   *)
(* that what each entry means is known apart from the parser.              *)

MaxParseEntries == 2     \* most entries in one misplaced-letters input

\* a letter part as typed and the letter it stands for
ParseLetterParts ==
    {[text |-> <<"a">>, letter |-> <<"a">>],
     [text |-> <<" ", "A">>, letter |-> <<"a">>],
     [text |-> <<"b", " ">>, letter |-> <<"b">>],
     [text |-> <<" ">>, letter |-> <<>>]}

\* a position token as typed and the 1-indexed position it names, if any
ParseTokens ==
    {[text |-> <<"1">>, num |-> Some(1)],
     [text |-> <<" ", "2", " ">>, num |-> Some(2)],
     [text |-> <<"1", "0">>, num |-> Some(10)],
     [text |-> <<"b">>, num |-> None]}

ParseTokenLists == UNION {[1..n -> ParseTokens] : n \in 1..2}

ParseEntryForms ==
    {[letter_part |-> l, colon |-> FALSE, tokens |-> <<>>] : l \in ParseLetterParts}
      \cup {[letter_part |-> l, colon |-> TRUE, tokens |-> t] :
               l \in ParseLetterParts, t \in ParseTokenLists}

ParseEntryLists == UNION {[1..n -> ParseEntryForms] : n \in 1..MaxParseEntries}

\* ",".join of the token texts
RECURSIVE JoinTokens(_, _)
JoinTokens(tokens, k) ==
    IF k > Len(tokens) THEN <<>>
    ELSE (IF k > 1 THEN <<",">> ELSE <<>>) \o tokens[k].text \o JoinTokens(tokens, k + 1)

EntryText(e) ==
    e.letter_part.text \o (IF e.colon THEN <<":">> \o JoinTokens(e.tokens, 1) ELSE <<>>)

\* ";".join of the entry texts
RECURSIVE JoinEntries(_, _)
JoinEntries(entries, k) ==
    IF k > Len(entries) THEN <<>>
    ELSE (IF k > 1 THEN <<";">> ELSE <<>>) \o EntryText(entries[k])
           \o JoinEntries(entries, k + 1)

InitParseEntries ==
    /\ NoSolver
    /\ call = "start"
    /\ args \in [entries : ParseEntryLists]
    /\ ret = None
    /\ LoaderIdle
    /\ GuiIdle
    /\ ThreadsIdle

ParseMisplacedEntries ==
    /\ call = "start"
    /\ call' = "parse_misplaced_letters"
    /\ ret' = parse_misplaced_letters(JoinEntries(args.entries, 1))
    /\ UNCHANGED <<word_data_list, filtered_results, overall_distribution, args>>
    /\ UNCHANGED <<loader_vars, gui_vars, thread_vars>>

NextParseEntries == ParseMisplacedEntries

SpecParseEntries == InitParseEntries /\ [][NextParseEntries]_vars

ParseEntriesDone == call = "parse_misplaced_letters"

\* the entries that carry a ':'
ColonEntries == {k \in 1..Len(args.entries) : args.entries[k].colon}

\* the input is empty or whitespace only
BlankInput ==
    \A k \in 1..Len(args.entries) :
        ~args.entries[k].colon /\ args.entries[k].letter_part.letter = <<>>

\* the 0-indexed positions that the entries of a letter name
NamedPositions(letter) ==
    UNION {{args.entries[k].tokens[j].num[1] - 1 :
               j \in {i \in 1..Len(args.entries[k].tokens) :
                         args.entries[k].tokens[i].num # None}} :
           k \in {i \in ColonEntries : args.entries[i].letter_part.letter = letter}}

\* C11: for an input of semicolon-separated entries letter[:pos,pos...] the
\* parser returns a mapping with one key per letter that has an entry with a
\* ':' (letter part stripped and lower-cased), mapped to the union over that
\* letter's entries of p-1 for the numeric tokens p (tokens stripped,
\* non-numeric tokens dropped); entries without ':' add nothing and a blank
\* input gives the empty mapping.
C11_ParseMapping ==
    ParseEntriesDone =>
        /\ ret.ok
        /\ BlankInput => ret.val = <<>>
        /\ {ret.val[k].key : k \in 1..Len(ret.val)}
              = {args.entries[k].letter_part.letter : k \in ColonEntries}
        /\ \A i, j \in 1..Len(ret.val) : ret.val[i].key = ret.val[j].key => i = j
        /\ \A k \in 1..Len(ret.val) : ret.val[k].val = NamedPositions(ret.val[k].key)

\* C11 witness: one letter given in two entries with different positions,
\* typed with whitespace and in upper case, next to a non-numeric token
C11_Witness ==
    /\ ParseEntriesDone /\ ret.ok
    /\ Len(args.entries) = 2
    /\ ColonEntries = {1, 2}
    /\ args.entries[1].letter_part.text # args.entries[2].letter_part.text
    /\ \E j \in 1..Len(args.entries[2].tokens) : args.entries[2].tokens[j].num = None
    /\ Len(ret.val) = 1
    /\ ret.val[1].val = {0, 1}

\* C11 second witness: an entry without ':' between nothing and a kept entry
C11_WitnessIgnored ==
    /\ ParseEntriesDone /\ ret.ok
    /\ Len(args.entries) = 2
    /\ ColonEntries = {2}
    /\ args.entries[1].letter_part.letter # <<>>
    /\ Len(ret.val) = 1
    /\ ret.val[1].val = {9}

-----------------------------------------------------------------------------
(* Specification of the corpus loaders: the corpus files are drawn, then   *)
(* filters._load_word_list and the WordleSolver constructor are called, in *)
(* any order and with any of the paths.                                    *)

MaxLines == 2     \* most lines in a corpus file
MaxLoads == 3     \* most calls made to each loader

\* a line as written and the entry a well-formed line stands for: None when
\* the line has not exactly two comma-separated fields or its second field is
\* no integer
LineForms ==
    {[text |-> <<"a", ",", "1">>, entry |-> Some([word |-> <<"a">>, freq |-> 1, mask |-> 1])],
     [text |-> <<" ", "B", " ", ",", " ", "2", " ">>,
      entry |-> Some([word |-> <<"B">>, freq |-> 2, mask |-> 2])],
     [text |-> <<"a", "b", "a", ",", "1", "0">>,
      entry |-> Some([word |-> <<"a", "b", "a">>, freq |-> 10, mask |-> 3])],
     [text |-> <<"c", ",", "0">>, entry |-> Some([word |-> <<"c">>, freq |-> 0, mask |-> 4])],
     [text |-> <<"a", "1", ",", "2">>,
      entry |-> Some([word |-> <<"a", "1">>, freq |-> 2, mask |-> 1])],
     [text |-> <<"a">>, entry |-> None],
     [text |-> <<"a", ",", "b", ",", "1">>, entry |-> None],
     [text |-> <<"a", ",", "b">>, entry |-> None],
     [text |-> <<>>, entry |-> None]}

LineTexts == {f.text : f \in LineForms}
CorpusFiles == UNION {[1..n -> LineTexts] : n \in 0..MaxLines}
OtherFiles == {<<<<"c", ",", "0">>>>}

InitLoad ==
    /\ NoSolver
    /\ GuiIdle
    /\ ThreadsIdle
    /\ call = "start"
    /\ args = <<>>
    /\ ret = None
    /\ \E f \in {None} \cup {Some(l) : l \in CorpusFiles},
          o \in {None} \cup {Some(l) : l \in OtherFiles} :
           files = [p \in Paths |-> IF p = "frequency.txt" THEN f ELSE o]
    /\ WORD_DATA = None
    /\ reads = [filters |-> 0, solver |-> 0]
    /\ loads = [filters |-> 0, solver |-> 0]

\* filters._load_word_list(filename)
FiltersLoadWordList ==
    /\ loads.filters < MaxLoads
    /\ \E filename \in Paths :
        LET r == load_word_list(WORD_DATA, files, filename)
        IN  /\ call' = "filters._load_word_list"
            /\ args' = [filename |-> filename]
            /\ ret' = r.ret
            /\ WORD_DATA' = r.cache
            /\ reads' = [reads EXCEPT !.filters = @ + r.opened]
            /\ loads' = [loads EXCEPT !.filters = @ + 1]
    /\ UNCHANGED <<solver_vars, files, gui_vars, thread_vars>>

\* WordleSolver(filename): the constructor stores what _load_word_list returns
SolverLoadWordList ==
    /\ loads.solver < MaxLoads
    /\ \E filename \in Paths :
        LET r == solver_load_word_list(files, filename)
        IN  /\ call' = "WordleSolver._load_word_list"
            /\ args' = [filename |-> filename]
            /\ ret' = r
            /\ word_data_list' = IF r.ok THEN r.val ELSE word_data_list
            /\ reads' = [reads EXCEPT !.solver = @ + (IF files[filename] = None THEN 0 ELSE 1)]
            /\ loads' = [loads EXCEPT !.solver = @ + 1]
    /\ UNCHANGED <<filtered_results, overall_distribution, files, WORD_DATA, gui_vars, thread_vars>>

NextLoad == FiltersLoadWordList \/ SolverLoadWordList

SpecLoad == InitLoad /\ [][NextLoad]_vars

LoadCalls == {"filters._load_word_list", "WordleSolver._load_word_list"}

\* what a line stands for
LineEntry(text) == (CHOOSE f \in LineForms : f.text = text).entry

\* the entries the lines of the file at path stand for, in file order
FileEntries(path) ==
    LET lines == files[path][1]
        from[k \in 1..(Len(lines) + 1)] ==
            IF k > Len(lines) THEN <<>>
            ELSE (IF LineEntry(lines[k]) = None THEN <<>> ELSE <<LineEntry(lines[k])[1]>>)
                   \o from[k + 1]
    IN  from[1]

\* bit i of an entry's mask is set iff letter i occurs in its word
MaskOfLetters(entry) ==
    \A ch \in LowerLetters :
        HasBit(entry.mask, LetterIndex(ch))
          <=> \E i \in 1..Len(entry.word) : LowerChar(entry.word[i]) = ch

\* C12 as claimed: a load call made while its source file is missing fails;
\* it never returns a corpus.
C12_MissingSourceFails ==
    (call \in LoadCalls /\ files[args.filename] = None) => ~ret.ok

\* every file is there and holds only lines that load
CleanFiles ==
    \A p \in Paths :
        /\ files[p] # None
        /\ \A k \in 1..Len(files[p][1]) :
               LineEntry(files[p][1][k]) # None
                 => get_word_mask(LineEntry(files[p][1][k])[1].word).ok

\* C13 as claimed: a load call with path P returns the entries of the file at
\* P (stated for files that all exist and load without error).
C13_CacheKeyedByPath ==
    (call \in LoadCalls /\ CleanFiles /\ ret.ok) => ret.val = FileEntries(args.filename)

\* C14 as claimed, for both loaders: a load call that follows a successful
\* load call of the same loader with the same path returns the same sequence
\* and opens no file.
C14_Original_NoLoaderRereads ==
    [][(call \in LoadCalls /\ ret.ok /\ call' = call /\ args' = args)
          => (ret' = ret /\ reads' = reads)]_vars

\* C14: filters._load_word_list opens a file at most once; every call that
\* returns leaves the returned list in the cache; once the cache is assigned
\* no step changes it, and every later call returns it without opening a file.
C14_CachedLoaderReadsOnce ==
    [][/\ reads'.filters <= 1
       /\ (call' = "filters._load_word_list" /\ loads' # loads /\ ret'.ok)
             => WORD_DATA' = Some(ret'.val)
       /\ WORD_DATA # None
             => /\ WORD_DATA' = WORD_DATA
                /\ (call' = "filters._load_word_list" /\ loads' # loads)
                      => (ret' = Ok(WORD_DATA[1]) /\ reads' = reads)]_vars

\* C14 witness: the cached loader has been called at least twice with the
\* path of a file with entries, and returns them having opened one file
C14_Witness ==
    /\ call = "filters._load_word_list"
    /\ loads.filters >= 2
    /\ reads.filters = 1
    /\ ret.ok
    /\ Len(ret.val) = MaxLines
    /\ args.filename = "frequency.txt"
    /\ files["frequency.txt"] # None
    /\ ret.val = FileEntries("frequency.txt")

\* C15 as claimed: a load that reads an existing file never fails; it returns
\* one entry per line with two fields and an integer frequency, in file order,
\* each with the mask of its word's letters, and nothing for the other lines.
C15_LoadTotalOnLines ==
    (/\ call \in LoadCalls
     /\ files[args.filename] # None
     /\ (call = "filters._load_word_list" => loads.filters = 1))
        => /\ ret.ok
           /\ ret.val = FileEntries(args.filename)
           /\ \A k \in 1..Len(ret.val) : MaskOfLetters(ret.val[k])

-----------------------------------------------------------------------------
(* Specification of the remaining-letters finder: a corpus and the letter  *)
(* sets are drawn, then find_words_from_remaining_letters is applied.      *)

FindWords == {<<"a">>, <<"c">>, <<"b", "a">>, <<"b", "b">>, <<"A", "b">>}
FindEntries == {WordData(w, f) : w \in FindWords, f \in {1, MaxFreq}}
FindCorpora == UNION {[1..n -> FindEntries] : n \in 0..MaxCorpus}
FindDistributions ==
    {<<>>, [ch \in {"a", "b"} |-> 1], [ch \in {"a", "b", "c"} |-> IF ch = "a" THEN MaxFreq ELSE 1]}

InitFind ==
    /\ word_data_list \in FindCorpora
    /\ filtered_results = <<>>
    /\ overall_distribution \in FindDistributions
    /\ call = "start"
    /\ args \in [used_letters : {{}, {"a"}}, not_allowed_letters : {{}, {"b"}},
                 word_length : WordLengths, min_frequency : {0, MaxFreq}]
    /\ ret = None
    /\ LoaderIdle
    /\ GuiIdle
    /\ ThreadsIdle

FindWordsFromRemainingLetters ==
    /\ call = "start"
    /\ call' = "find_words_from_remaining_letters"
    /\ ret' = find_words_from_remaining_letters(word_data_list, args.used_letters,
                  args.not_allowed_letters, overall_distribution, args.word_length,
                  args.min_frequency)
    /\ UNCHANGED <<solver_vars, args, loader_vars, gui_vars, thread_vars>>

NextFind == FindWordsFromRemainingLetters

SpecFind == InitFind /\ [][NextFind]_vars

FindDone == call = "find_words_from_remaining_letters"

\* corpus entry k qualifies: length, minimum frequency, and no letter of the
\* word (case folded, multiplicities ignored) among the used or excluded ones
Qualifies(k) ==
    LET w == word_data_list[k].word
    IN  /\ LengthOk(w, args.word_length)
        /\ word_data_list[k].freq >= args.min_frequency
        /\ \A i \in 1..Len(w) :
               LowerChar(w[i]) \notin (args.used_letters \cup args.not_allowed_letters)

Qualifying == {k \in 1..Len(word_data_list) : Qualifies(k)}

\* the sum of overall over the distinct letters of the word as it is stored
StoredLetterSum(word) ==
    LET in(ch) == IF (\E i \in 1..Len(word) : word[i] = ch)
                  THEN DictGet(overall_distribution, ch) ELSE 0
    IN  in("a") + in("b") + in("c")

\* the place of qualifying entry k: after every qualifying entry of greater
\* score and every earlier qualifying entry of equal score
FindRank(k) ==
    LET score(j) == StoredLetterSum(word_data_list[j].word)
    IN  Cardinality({j \in Qualifying : score(j) > score(k)})
          + Cardinality({j \in Qualifying : j < k /\ score(j) = score(k)})

\* C16: find_words_from_remaining_letters returns exactly the qualifying
\* corpus entries, each as (word, sum of overall over its distinct letters),
\* ordered by score descending and, on equal scores, in corpus order.
C16_FindQualifyingSorted ==
    FindDone =>
        /\ ret.ok
        /\ Len(ret.val) = Cardinality(Qualifying)
        /\ \A k \in Qualifying :
               ret.val[FindRank(k) + 1]
                 = <<word_data_list[k].word, StoredLetterSum(word_data_list[k].word)>>

\* C16 witness: an entry is left out for a used letter, a word with a
\* repeated letter is returned and a later entry of greater score overtakes
\* an earlier one
C16_Witness ==
    /\ FindDone /\ ret.ok
    /\ args.used_letters # {}
    /\ Cardinality(Qualifying) = MaxCorpus - 1
    /\ Len(word_data_list) = MaxCorpus
    /\ \E k \in Qualifying : word_data_list[k].word = <<"b", "b">>
    /\ \E i, j \in 1..Len(ret.val) : i < j /\ ret.val[i][2] > ret.val[j][2]
    /\ \E i, j \in Qualifying :
           /\ i < j
           /\ StoredLetterSum(word_data_list[i].word) < StoredLetterSum(word_data_list[j].word)

\* C16 second witness: two different words of equal score, one of them with
\* an upper-case letter, are returned in corpus order
C16_WitnessTie ==
    /\ FindDone /\ ret.ok
    /\ \E i, j \in Qualifying :
           /\ i < j
           /\ word_data_list[i].word = <<"A", "b">>
           /\ word_data_list[j].word # word_data_list[i].word
           /\ StoredLetterSum(word_data_list[i].word) = StoredLetterSum(word_data_list[j].word)
           /\ StoredLetterSum(word_data_list[i].word) > 0

-----------------------------------------------------------------------------
(* Specification of the distribution aggregator: a result set of words of  *)
(* one length is drawn, then compute_letter_distributions is applied.      *)

MaxDistLen == 2     \* longest word of the aggregated result sets

DistChars == {"a", "b", "A"}
DistResultSets ==
    UNION {UNION {[1..m -> {<<w, f>> : w \in [1..n -> DistChars], f \in {0, MaxFreq}}] :
                     m \in 0..MaxPool} :
           n \in 1..MaxDistLen}

InitDist ==
    /\ NoSolver
    /\ call = "start"
    /\ args \in [results : DistResultSets]
    /\ ret = None
    /\ LoaderIdle
    /\ GuiIdle
    /\ ThreadsIdle

ComputeDistributions ==
    /\ call = "start"
    /\ call' = "compute_letter_distributions"
    /\ ret' = compute_letter_distributions(args.results)
    /\ overall_distribution' = IF ret'.ok THEN ret'.val.overall ELSE <<>>
    /\ UNCHANGED <<word_data_list, filtered_results, args, loader_vars, gui_vars, thread_vars>>

NextDist == ComputeDistributions

SpecDist == InitDist /\ [][NextDist]_vars

DistDone == call = "compute_letter_distributions"

\* the result words that have letter c (case folded) at 0-based index i
WordsWith(c, i) ==
    {k \in 1..Len(args.results) : LowerChar(args.results[k][1][i + 1]) = c}

\* the sum of the frequencies of a set of result words
RECURSIVE FrequencySum(_)
FrequencySum(ks) ==
    IF ks = {} THEN 0
    ELSE LET k == CHOOSE j \in ks : TRUE
         IN  args.results[k][2] + FrequencySum(ks \ {k})

\* the sum of positional[i][c] over the positions 0..n-1
RECURSIVE PositionalSum(_, _, _)
PositionalSum(positional, c, n) ==
    IF n = 0 THEN 0
    ELSE DictGet(positional[n - 1], c) + PositionalSum(positional, c, n - 1)

\* C17: for a result set of words of one length, positional has one mapping
\* per index of the words, positional[i][c] is the sum of the frequencies of
\* the words with c at index i (no key when there is none), and overall[c] is
\* the sum of positional[i][c] over all i, a repeated letter counting once per
\* occurrence; an empty result set gives two empty mappings.
C17_DistributionsSumFrequencies ==
    DistDone =>
        /\ ret.ok
        /\ args.results = <<>> => (ret.val.overall = <<>> /\ ret.val.positional = <<>>)
        /\ args.results # <<>> =>
              LET length == Len(args.results[1][1])
                  overall == ret.val.overall
                  positional == ret.val.positional
              IN  /\ DOMAIN positional = 0..(length - 1)
                  /\ \A i \in 0..(length - 1) :
                         /\ DOMAIN positional[i] = {c \in LowerLetters : WordsWith(c, i) # {}}
                         /\ \A c \in DOMAIN positional[i] :
                                positional[i][c] = FrequencySum(WordsWith(c, i))
                  /\ DOMAIN overall = UNION {DOMAIN positional[i] : i \in 0..(length - 1)}
                  /\ \A c \in DOMAIN overall : overall[c] = PositionalSum(positional, c, length)

\* C17 witness: two words share a letter at one index and one of them repeats
\* it, so the letter's overall count is three frequencies
C17_Witness ==
    /\ DistDone /\ ret.ok
    /\ Len(args.results) = 2
    /\ Len(args.results[1][1]) = 2
    /\ args.results[1][2] > 0 /\ args.results[2][2] > 0
    /\ Lower(args.results[1][1]) = <<"a", "a">>
    /\ Lower(args.results[2][1]) = <<"a", "b">>
    /\ ret.val.positional[0]["a"] = 2 * MaxFreq
    /\ ret.val.overall["a"] = 3 * MaxFreq

-----------------------------------------------------------------------------
(* Specification of repeated filtering: a solver filters its corpus, then  *)
(* a solver whose corpus is the entries of that result set filters with    *)
(* the same constraint.                                                    *)

RefilterWords == {<<"a">>, <<"A", "b">>, <<"b", "b">>}
RefilterEntries == {WordData(w, f) : w \in RefilterWords, f \in {1, MaxFreq}}
RefilterCorpora == UNION {[1..n -> RefilterEntries] : n \in 0..MaxCorpus}

InitRefilter ==
    /\ word_data_list \in RefilterCorpora
    /\ filtered_results = <<>>
    /\ overall_distribution = <<>>
    /\ call = "start"
    /\ args = <<>>
    /\ ret = None
    /\ LoaderIdle
    /\ GuiIdle
    /\ ThreadsIdle

\* filter_words on the corpus
FilterCorpus ==
    /\ call = "start"
    /\ \E word_length \in WordLengths, pattern \in FilterPatterns,
          not_allowed \in FilterNotAllowed, misplaced_input \in FilterMisplaced :
        /\ call' = "filter_words"
        /\ args' = [word_length |-> word_length, pattern |-> pattern,
                    not_allowed |-> not_allowed, misplaced_input |-> misplaced_input]
        /\ ret' = filter_words(word_data_list, word_length, pattern, not_allowed,
                               misplaced_input)
        /\ filtered_results' = IF ret'.ok THEN ret'.val ELSE <<>>
    /\ UNCHANGED <<word_data_list, overall_distribution, loader_vars, gui_vars, thread_vars>>

\* filter_words, same arguments, on the entries of the result set
FilterResults ==
    /\ call = "filter_words" /\ ret.ok
    /\ call' = "filter_words again"
    /\ ret' = filter_words([k \in 1..Len(filtered_results) |->
                                WordData(filtered_results[k][1], filtered_results[k][2])],
                           args.word_length, args.pattern, args.not_allowed,
                           args.misplaced_input)
    /\ UNCHANGED <<solver_vars, args, loader_vars, gui_vars, thread_vars>>

NextRefilter == FilterCorpus \/ FilterResults

SpecRefilter == InitRefilter /\ [][NextRefilter]_vars

RefilterDone == call = "filter_words again"

\* C18: filtering the entries of a filtered result set with the same
\* constraint returns the same (word, frequency) pairs in the same order.
C18_FilterIdempotent ==
    RefilterDone => (ret.ok /\ ret.val = filtered_results)

\* C18 witness: the first filter dropped the first entry of the corpus and
\* kept a tie between different words; the second filter changes nothing
C18_Witness ==
    /\ RefilterDone /\ ret.ok
    /\ Len(word_data_list) = MaxCorpus
    /\ Len(filtered_results) = MaxCorpus - 1
    /\ args.misplaced_input # <<>>
    /\ filtered_results[1][1] # word_data_list[1].word
    /\ ret.val = filtered_results
    /\ \E i, j \in 1..Len(ret.val) :
           /\ i < j
           /\ ret.val[i][2] = ret.val[j][2]
           /\ ret.val[i][1] # ret.val[j][1]

-----------------------------------------------------------------------------
(* The feedback of a word against itself, on the feedback specification    *)

\* C19: for every word w, also one with repeated or upper-case letters,
\* get_feedback_pattern(w, w) is the string of len(w) 'G' characters.
C19_SelfFeedbackAllExact ==
    (call = "get_feedback_pattern" /\ args.guess = args.answer)
        => ret = Ok([i \in 1..Len(args.guess) |-> "G"])

\* C19 witness: a word of the greatest length that repeats a letter, once in
\* upper case, is compared with itself
C19_Witness ==
    /\ call = "get_feedback_pattern"
    /\ args.guess = args.answer
    /\ Len(args.guess) = MaxWordLen
    /\ \E i, j \in 1..Len(args.guess) :
           i < j /\ args.guess[i] = "a" /\ args.guess[j] = "A"
    /\ ret.ok
    /\ \A i \in 1..Len(ret.val) : ret.val[i] = "G"


-----------------------------------------------------------------------------
(* Specification of the window: the Filter button, the worker thread of    *)
(* the executor and the callbacks of the Tk main loop.                     *)

\* The grid of the model has two rows (the program builds six) of two cells,
\* the word length it was last built for.

EmptyCell == [letter |-> <<>>, state |-> "default"]

\* the grids the user fills in, row after row: nothing; a green letter and a grey one; two
\* yellow cells of one letter and an ignored cell; two different green letters
\* in one column; a letter both green and grey; a letter both yellow and grey
GuiGrids ==
    { <<EmptyCell, EmptyCell, EmptyCell, EmptyCell>>,
      <<[letter |-> <<"a">>, state |-> "green"], [letter |-> <<"c">>, state |-> "default"],
        EmptyCell, EmptyCell>>,
      <<[letter |-> <<"b">>, state |-> "yellow"], [letter |-> <<"c">>, state |-> "ignored"],
        EmptyCell, [letter |-> <<"b">>, state |-> "yellow"]>>,
      <<[letter |-> <<"a">>, state |-> "green"], EmptyCell,
        [letter |-> <<"b">>, state |-> "green"], EmptyCell>>,
      <<[letter |-> <<"a">>, state |-> "green"], [letter |-> <<"a">>, state |-> "default"],
        EmptyCell, EmptyCell>>,
      <<[letter |-> <<"b">>, state |-> "yellow"], [letter |-> <<"b">>, state |-> "default"],
        EmptyCell, EmptyCell>> }

\* texts of the word length entry and of the excluded letters entry
WordLengthTexts == {<<"2">>, <<"a">>, <<"0">>}
NotAllowedTexts == {<<>>, <<"c">>, <<"1">>}

\* frequency.txt: absent, or three words of two letters
GuiFiles == {None, Some(<< <<"a", "b", ",", "2">>, <<"b", "a", ",", "1">>,
                           <<"c", "b", ",", "1">> >>)}

\* what can happen inside update_ui
UpdateUiOutcomes == {"ok", "write_fails", "view_fails"}

InitGui ==
    /\ word_data_list = <<>>
    /\ filtered_results = <<>>
    /\ overall_distribution = <<>>
    /\ call = "init"
    /\ args = <<>>
    /\ ret = None
    /\ \E f \in GuiFiles : files = [p \in Paths |-> IF p = "frequency.txt" THEN f ELSE None]
    /\ WORD_DATA = None
    /\ reads = [filters |-> 0, solver |-> 0]
    /\ loads = [filters |-> 0, solver |-> 0]
    /\ GuiIdle
    /\ ThreadsIdle

\* a click on the Filter button, which a disabled button does not deliver
ApplyFilter ==
    /\ filter_button = "normal"
    /\ \E text \in WordLengthTexts, grid \in GuiGrids, na \in NotAllowedTexts :
          LET inputs == FilterInputs(text, grid, na)
          IN  /\ call' = "apply_filter"
              /\ args' = <<text, grid, na>>
              /\ ret' = inputs
              /\ IF inputs.ok
                 THEN /\ filter_button' = "disabled"
                      /\ status_text' = "Filtering..."
                      /\ job_queue' = Append(job_queue, inputs.val)
                 ELSE UNCHANGED <<filter_button, status_text, job_queue>>
    /\ UNCHANGED <<solver_vars, loader_vars, future, after_queue, thread_vars>>

\* the single worker thread takes the next job and runs run_full_filter
RunFullFilter ==
    /\ job_queue # <<>>
    /\ future = None
    /\ \E r \in {run_full_filter(WORD_DATA, files, Head(job_queue))} :
           /\ future' = Some(r.ret)
           /\ WORD_DATA' = r.cache
           /\ reads' = [reads EXCEPT !.filters = @ + r.opened]
           /\ ret' = r.ret
    /\ job_queue' = Tail(job_queue)
    /\ call' = "run_full_filter"
    /\ UNCHANGED <<solver_vars, files, loads, args, filter_button, status_text, after_queue, thread_vars>>

\* the done callback of the future
OnFilterComplete ==
    /\ future # None
    /\ after_queue' = after_queue \o CompletionCallbacks(future[1])
    /\ future' = None
    /\ call' = "on_filter_complete"
    /\ UNCHANGED <<solver_vars, loader_vars, args, ret, filter_button, status_text, job_queue, thread_vars>>

\* the main loop runs the next scheduled callback of the two error branches
RunAfterCallback ==
    /\ after_queue # <<>>
    /\ Head(after_queue).fn # "update_ui"
    /\ LET cb == Head(after_queue)
       IN  /\ filter_button' = IF cb.fn = "enable_button" THEN "normal" ELSE filter_button
           /\ status_text' = IF cb.fn = "set_status" THEN cb.text ELSE status_text
           /\ call' = cb.fn
    /\ after_queue' = Tail(after_queue)
    /\ UNCHANGED <<solver_vars, loader_vars, args, ret, job_queue, future, thread_vars>>

\* the main loop runs update_ui: a failed write shows an error box and
\* returns; an exception from a view leaves the callback after the status is
\* set; only the last statement enables the button
UpdateUi ==
    /\ after_queue # <<>>
    /\ Head(after_queue).fn = "update_ui"
    /\ \E outcome \in UpdateUiOutcomes :
          /\ filter_button' = IF outcome = "ok" THEN "normal" ELSE filter_button
          /\ status_text' = IF outcome = "write_fails" THEN status_text
                            ELSE "Filtering complete."
          /\ ret' = IF outcome = "ok" THEN Ok(None) ELSE Raise(outcome)
    /\ after_queue' = Tail(after_queue)
    /\ call' = "update_ui"
    /\ UNCHANGED <<solver_vars, loader_vars, args, job_queue, future, thread_vars>>

NextGui ==
    \/ ApplyFilter
    \/ RunFullFilter
    \/ OnFilterComplete
    \/ RunAfterCallback
    \/ UpdateUi

\* what the executor does of a RunFullFilter step: the next job leaves the
\* queue.  Every step of NextGui that takes a job from the queue is a
\* RunFullFilter step, and RunFullFilter is enabled exactly when a job waits
\* and no result is pending, so fairness on this step is fairness on
\* RunFullFilter, without evaluating the filter to decide enabledness.
WorkerTakesJob ==
    /\ job_queue # <<>>
    /\ future = None
    /\ job_queue' = Tail(job_queue)

\* the worker thread runs every submitted job, a finished future calls its
\* callback, and the main loop runs every callback scheduled with root.after
\* (the user closes the error boxes); nothing obliges the user to click
SpecGui ==
    /\ InitGui
    /\ [][NextGui]_vars
    /\ WF_job_queue(WorkerTakesJob)
    /\ WF_vars(OnFilterComplete)
    /\ WF_vars(RunAfterCallback)
    /\ WF_vars(UpdateUi)

\* C20: every run of apply_filter that disables the Filter button and
\* submits a job is eventually followed by the button being enabled again,
\* whichever way the job and update_ui end.
C20_ButtonReenabled == (filter_button = "disabled") ~> (filter_button = "normal")

\* nothing is left to run: no job, no result, no scheduled callback
GuiQuiet == job_queue = <<>> /\ future = None /\ after_queue = <<>>

\* the same property of a finished run: the button is enabled once nothing is left to run
ButtonEnabledWhenQuiet == GuiQuiet => filter_button = "normal"

\* the three paths that do enable it: job success with update_ui running to
\* its end, file not found, another exception of the job
ReenabledAfterSuccess ==
    call = "update_ui" /\ ret = Ok(None) /\ filter_button = "normal" /\ GuiQuiet
ReenabledAfterFileNotFound ==
    status_text = "Error: file not found" /\ filter_button = "normal" /\ GuiQuiet
ReenabledAfterException ==
    status_text = "Error during filtering" /\ filter_button = "normal" /\ GuiQuiet


\* the letters of the cells of a grid that are filled in and in one of the given states
CellLetters(grid, states) ==
    {grid[i].letter[1] : i \in {j \in 1..Len(grid) :
                                   grid[j].letter # <<>> /\ grid[j].state \in states}}

\* apply_filter has just submitted a job
FilterSubmitted == call = "apply_filter" /\ ret.ok

\* C21: the constraints apply_filter derives never exclude a letter they
\* require: a letter that is green or yellow in some cell is absent from
\* the not-allowed letters passed to the filter, even if it is also in a grey
\* cell or in the excluded letters entry.
C21_RequiredNeverExcluded ==
    FilterSubmitted =>
        CellLetters(args[2], {"green", "yellow"}) \cap SetOf(ret.val.not_allowed) = {}

\* the part about green letters alone
GreenNeverExcluded ==
    FilterSubmitted => CellLetters(args[2], {"green"}) \cap SetOf(ret.val.not_allowed) = {}

\* a green letter that is also grey has been taken out of the excluded letters
GreenTakenOut ==
    /\ FilterSubmitted
    /\ CellLetters(args[2], {"green"}) \cap CellLetters(args[2], {"default"}) # {}


-----------------------------------------------------------------------------
(* Specification of filters._load_word_list called by two threads at once. *)
(* Each statement of the function is one step of the calling thread, and   *)
(* the steps of the threads interleave in any order.  The function has no  *)
(* local list: every read, append and return goes through the global name. *)

CorpusPath == "frequency.txt"

InitThreads ==
    /\ NoSolver
    /\ GuiIdle
    /\ ThreadsIdle
    /\ call = "start"
    /\ args = <<>>
    /\ ret = None
    /\ \E f \in {None} \cup {Some(l) : l \in CorpusFiles} :
           files = [p \in Paths |-> IF p = CorpusPath THEN f ELSE None]
    /\ WORD_DATA = None
    /\ reads = [filters |-> 0, solver |-> 0]
    /\ loads = [filters |-> 0, solver |-> 0]

\* thread t calls _load_word_list("frequency.txt")
ThreadCall(t) ==
    /\ thread_pc[t] = "idle"
    /\ thread_pc' = [thread_pc EXCEPT ![t] = "test"]
    /\ loads' = [loads EXCEPT !.filters = @ + 1]
    /\ call' = "filters._load_word_list"
    /\ args' = [filename |-> CorpusPath]
    /\ UNCHANGED <<solver_vars, gui_vars, ret, files, WORD_DATA, reads, line_no, handed>>

\* if _WORD_DATA is None:
ThreadTest(t) ==
    /\ thread_pc[t] = "test"
    /\ thread_pc' = [thread_pc EXCEPT ![t] = IF WORD_DATA = None THEN "assign" ELSE "return"]
    /\ UNCHANGED <<solver_vars, gui_vars, loader_vars, call, args, ret, line_no, handed>>

\* _WORD_DATA = []
ThreadAssign(t) ==
    /\ thread_pc[t] = "assign"
    /\ WORD_DATA' = Some(<<>>)
    /\ thread_pc' = [thread_pc EXCEPT ![t] = "open"]
    /\ UNCHANGED <<solver_vars, gui_vars, call, args, ret, files, reads, loads, line_no, handed>>

\* with open(filepath) as f: a missing file ends the call with FileNotFoundError
ThreadOpen(t) ==
    /\ thread_pc[t] = "open"
    /\ IF files[CorpusPath] = None
       THEN /\ thread_pc' = [thread_pc EXCEPT ![t] = "done"]
            /\ handed' = [handed EXCEPT ![t] = Some(Raise("FileNotFoundError"))]
            /\ UNCHANGED <<reads, line_no>>
       ELSE /\ thread_pc' = [thread_pc EXCEPT ![t] = "line"]
            /\ reads' = [reads EXCEPT !.filters = @ + 1]
            /\ line_no' = [line_no EXCEPT ![t] = 1]
            /\ UNCHANGED handed
    /\ UNCHANGED <<solver_vars, gui_vars, call, args, ret, files, WORD_DATA, loads>>

\* one round of "for line in f": the line is skipped, or its entry is appended
\* to the list _WORD_DATA names, or get_word_mask raises; after the last line
\* the loop and the with block are left
ThreadLine(t) ==
    /\ thread_pc[t] = "line"
    /\ IF line_no[t] > Len(files[CorpusPath][1])
       THEN /\ thread_pc' = [thread_pc EXCEPT ![t] = "return"]
            /\ UNCHANGED <<WORD_DATA, line_no, handed>>
       ELSE \E r \in {LoadLines(<<files[CorpusPath][1][line_no[t]]>>, 1, WORD_DATA[1])} :
              IF r.ok
              THEN /\ WORD_DATA' = Some(r.val)
                   /\ line_no' = [line_no EXCEPT ![t] = @ + 1]
                   /\ UNCHANGED <<thread_pc, handed>>
              ELSE /\ thread_pc' = [thread_pc EXCEPT ![t] = "done"]
                   /\ handed' = [handed EXCEPT ![t] = Some(Raise(r.exc))]
                   /\ UNCHANGED <<WORD_DATA, line_no>>
    /\ UNCHANGED <<solver_vars, gui_vars, call, args, ret, files, reads, loads>>

\* return _WORD_DATA: the caller is handed the list as it is now (the same
\* list object, which a thread still loading goes on extending)
ThreadReturn(t) ==
    /\ thread_pc[t] = "return"
    /\ handed' = [handed EXCEPT ![t] = Some(Ok(WORD_DATA[1]))]
    /\ thread_pc' = [thread_pc EXCEPT ![t] = "done"]
    /\ UNCHANGED <<solver_vars, gui_vars, loader_vars, call, args, ret, line_no>>

NextThreads ==
    \/ \E t \in Threads : ThreadCall(t)
    \/ \E t \in Threads : ThreadTest(t)
    \/ \E t \in Threads : ThreadAssign(t)
    \/ \E t \in Threads : ThreadOpen(t)
    \/ \E t \in Threads : ThreadLine(t)
    \/ \E t \in Threads : ThreadReturn(t)

SpecThreads == InitThreads /\ [][NextThreads]_vars

\* the corpus file exists and none of its lines makes the loader raise
CorpusLoadable ==
    /\ files[CorpusPath] # None
    /\ \A k \in 1..Len(files[CorpusPath][1]) :
           LineEntry(files[CorpusPath][1][k]) # None
             => get_word_mask(LineEntry(files[CorpusPath][1][k])[1].word).ok

AllThreadsDone == \A t \in Threads : thread_pc[t] = "done"

\* C22: when two threads call _load_word_list while the cache is
\* unassigned, each is handed the complete corpus, never the cached list while
\* it is empty or partly filled, and the entries of the file are appended
\* exactly once (stated for a corpus file that loads without error).
C22_ConcurrentCallersGetCorpus ==
    CorpusLoadable =>
        /\ \A t \in Threads :
               handed[t] # None => handed[t][1] = Ok(FileEntries(CorpusPath))
        /\ AllThreadsDone => WORD_DATA = Some(FileEntries(CorpusPath))

\* the first half alone: no caller is handed less than the corpus
HandedCompleteCorpus ==
    CorpusLoadable =>
        \A t \in Threads : handed[t] # None => handed[t][1] = Ok(FileEntries(CorpusPath))

\* a thread has been handed the list while another was still reading the file
HandedWhileLoading ==
    \E t \in Threads, u \in Threads :
        /\ handed[t] # None
        /\ thread_pc[u] = "line"
        /\ CorpusLoadable
        /\ Len(handed[t][1].val) < Len(FileEntries(CorpusPath))

=============================================================================
